---- MODULE Spec2Model ----
(***************************************************************************)
(* A model of the YARP server and client cores (net_server.go,             *)
(* net_client.go).                                                         *)
(*                                                                         *)
(* Spec        one accepted connection: the serve task, the readHeader     *)
(*             task, the handler, the streaming pump (serviceStreamer),    *)
(*             forceShutdown's close of the connection, notifyClosed and   *)
(*             the client reading the socket.  Every access to c.state     *)
(*             that the code makes without holding c.mu is a step of its   *)
(*             own, so the interleavings of the tasks are those of the     *)
(*             program.                                                    *)
(* SpecServer  the server as a whole: StartListener's accept loop, the     *)
(*             callers of Shutdown, the stop channel, the live-connection  *)
(*             set.  FairSpecServer adds the fairness the Go scheduler     *)
(*             gives to every task that can run.                           *)
(***************************************************************************)
EXTENDS Integers, Sequences, FiniteSets, TLC

\* ------------------------------------------------------------------ bounds
\* The largest number of values a streaming handler pushes.
MaxPush == 2
\* The number of middlewares registered with Server.Use.
NumMiddlewares == 2
\* The number of connections the listener can deliver (SpecServer).
MaxConns == 2
\* The number of tasks that call Shutdown (SpecServer).
NumCallers == 2
\* The longest reply a client reads the head of.
MaxReply == 3
\* The largest low seven bits of an integer that is encoded, 127 apart.
MaxLow == 8
\* The longest stream that is decoded.
MaxStream == 4
\* The largest number of fields of a struct whose declaration is validated.
MaxFields == 3
\* The largest number of parameters of a function that is registered; it has
\* one result fewer at most.
MaxArgs == 5
\* The largest number of values of a struct on the wire.
MaxWire == 3
\* The largest number of elements of a slice that is encoded.
MaxElems == 2
\* The largest number of types passed to one registration, and the number
\* of registrations.
MaxTypes == 2
MaxCalls == 2
\* The largest number of accept failures in a row.
MaxFails == 10

\* --------------------------------------------------------- program constants
connStateNew == 0
connStateWaitingHeaders == 1
connStateReceivedHeaders == 2
connStateReceivingBody == 3
connStateReceivedBody == 4
connStateWritingResponse == 5
connStateWroteResponse == 6
connStateClosed == 7

ErrorKindInternalError == 0
ErrorKindManagedError == 1
ErrorKindUnimplementedMethod == 3
ErrorKindTypeMismatch == 4

\* The capacity of the channel apply makes for a streamer.
StreamChanCap == 10

\* The accept loop's back-off, in milliseconds: the first delay and the ceiling.
BackoffFirst == 5
BackoffMax == 1000

\* ------------------------------------------------------------------- values
\* An error value is nil (NoError), a managed Error, named here by its Kind, or
\* any other error (PlainError).
NoError == "nil"
PlainError == "error"
ManagedError == "Error{ManagedError}"
UnimplementedMethod == "Error{UnimplementedMethod}"
TypeMismatch == "Error{TypeMismatch}"

\* The errors a handler or a middleware may return.
UserErrors == {PlainError, ManagedError}

\* A registered handler, as RegisterHandler records it: whether it takes a
\* streamer, whether it declares an input type, whether it declares an output
\* type (a streamer never does).
Handlers ==
    { [usesStreamer |-> s, hasIn |-> i, hasOut |-> o] :
        s \in BOOLEAN, i \in BOOLEAN, o \in BOOLEAN } \
    { [usesStreamer |-> TRUE, hasIn |-> i, hasOut |-> TRUE] : i \in BOOLEAN }
NoHandler == [usesStreamer |-> FALSE, hasIn |-> FALSE, hasOut |-> FALSE]

\* The frames and values the server writes to the socket.
ResponseFrame(stream) == [t |-> "response", a |-> IF stream THEN 1 ELSE 0]
ErrorFrame(kind, payload) == [t |-> "error", a |-> kind, p |-> payload]
ValueBytes(v) == [t |-> "value", a |-> v]

VARIABLES
    \* -- srvConn
    state,          \* c.state
    mu,             \* the holder of c.mu, or "free"
    rwClosed,       \* c.rw has been closed
    rwCloses,       \* the number of calls of c.rw.Close()
    notifyPending,  \* notifyClosed tasks started and not yet run
    inClients,      \* c is in s.clients
    waitClients,    \* the counter of s.waitClients
    out,            \* what has been written to c.rw, in order
    ioFailed,       \* some read, write or encoding has failed
    \* -- serve
    srvPc, srvNew, srvTmp, srvErr, handler, midIdx,
    req,            \* the RPCRequest serve passes along
    mwCalls,        \* the calls of middlewares: which one, with which request
    \* -- readHeader
    rdPc, rdVal,
    \* -- the streamer's channel and the handler
    ch, chClosed, pushed, hres,
    \* -- serviceStreamer
    pumpPc, pumpV, errored,
    \* -- forceShutdown
    forcePc,
    \* -- the client
    cliPc, cliPos, yielded,
    \* -- Server (SpecServer)
    acceptPc, acceptErr, acceptRet, tmpDelay, stopChan, stopping, shutPc,
    ctxDone, clients, connClosed, accepted, notifyQueue,
    smu,            \* the holder of s.mu, or "free"
    fails,          \* the accept failures (net.Error) in a row so far
    \* -- Client.performRequest (SpecClient)
    reply,          \* the bytes of the reply the client can read
    prPc, prHeader, prResp, prErr, prConn,
    \* -- encodeInteger and decodeScalar (SpecScalar)
    scV,            \* the 64-bit pattern that is encoded, in base 128
    scSigned,       \* TRUE for encodeInt, FALSE for encodeUint
    scPc,
    scBytes,        \* the bytes the encoder returned
    scStream,       \* those bytes and the ones after them in the stream
    scOut,          \* what decodeScalar returned and what it left unread
    \* -- Encode, Decode and the functions under them
    cdIn,           \* the input of the call: a value, a stream, a declaration
    cdPc,
    cdBytes,        \* the bytes an encoder returned
    cdOut           \* what the call returned

connVars ==
    << state, mu, rwClosed, rwCloses, notifyPending, inClients, waitClients,
       out, ioFailed, srvPc, srvNew, srvTmp, srvErr, handler, midIdx, req, mwCalls,
       rdPc, rdVal, ch, chClosed, pushed, hres, pumpPc, pumpV, errored,
       forcePc, cliPc, cliPos, yielded >>

serverVars ==
    << acceptPc, acceptErr, acceptRet, tmpDelay, stopChan, stopping, shutPc,
       ctxDone, clients, connClosed, accepted, notifyQueue, smu, fails >>

\* The variables of the specifications of single functions.
requestVars == << reply, prPc, prHeader, prResp, prErr, prConn >>
scalarVars == << scV, scSigned, scPc, scBytes, scStream, scOut >>
codecVars == << cdIn, cdPc, cdBytes, cdOut >>
pureVars == << requestVars, scalarVars, codecVars >>

\* The variables of one connection, but for the wait group of the server.
connOnly ==
    << state, mu, rwClosed, rwCloses, notifyPending, inClients,
       out, ioFailed, srvPc, srvNew, srvTmp, srvErr, handler, midIdx, req, mwCalls,
       rdPc, rdVal, ch, chClosed, pushed, hres, pumpPc, pumpV, errored,
       forcePc, cliPc, cliPos, yielded >>

vars == << connVars, serverVars, pureVars >>

\* ------------------------------------------------------------- srvConn.setState
\* setState(new): "if new > c.state { c.state = new }", with the value of
\* c.state it read.
setState(read, cur, new) == IF new > read THEN new ELSE cur

\* ---------------------------------------------------------- srvConn.handleError
\* A handleError that reports every error as an internal one.
managedKind_internal(err) == ErrorKindInternalError

\* The Kind of the Error frame handleError encodes for err: that of err if it
\* is an Error value ("man, ok := err.(Error)"), InternalError otherwise.
managedKind(err) ==
    CASE err = ManagedError -> ErrorKindManagedError
      [] err = UnimplementedMethod -> ErrorKindUnimplementedMethod
      [] err = TypeMismatch -> ErrorKindTypeMismatch
      [] OTHER -> ErrorKindInternalError

\* The Headers, Identifier and UserData of the Error frame handleError encodes
\* for err: those the handler or the middleware gave its Error value ("user"),
\* none in the Error values the server makes and for any other error.
managedPayload(err) == IF err = ManagedError THEN "user" ELSE "empty"

\* A handleError that never writes.
handleErrorWrites_never(st) == FALSE

\* Whether handleError writes an Error frame in state st.
handleErrorWrites(st) ==
    st >= connStateReceivedHeaders /\ st < connStateWritingResponse

\* c.rw after handleError(err) in state st, the write succeeding or not.
handleError(o, st, err, wrote) ==
    IF handleErrorWrites(st) /\ wrote THEN Append(o, ErrorFrame(managedKind(err), managedPayload(err))) ELSE o

\* The outcomes of a write to c.rw: it fails on a closed socket, and may fail
\* on an open one (the peer is gone).
WriteOutcomes == IF rwClosed THEN {FALSE} ELSE BOOLEAN

sockVars == << mu, rwClosed, rwCloses, notifyPending, inClients, waitClients >>
srvLocals == << srvNew, srvTmp, srvErr, handler, midIdx, req, mwCalls >>
rdVars == << rdPc, rdVal >>
chanVars == << ch, chClosed, pushed, hres >>
pumpVars == << pumpPc, pumpV, errored >>
cliVars == << cliPc, cliPos, yielded >>

\* --------------------------------------------------------------- the codec
\* How a run of the codec on a value ends: with bytes or a value, with an
\* error, or with a panic (reflect.Value.Interface on an unexported field of
\* a pushed struct, for one).
CodecOutcomes == {"ok", "error", "panic"}

\* Encode and Decode, the entry points: "defer func() { if rawErr := recover();
\* rawErr != nil { err = ... } }()" turns a panic into an error.
atEntry(o) == IF o = "panic" THEN "error" ELSE o

\* An unrecovered panic in a task of the server ends the process.
ProcessDown == pumpPc = "panic"

\* ------------------------------------------------------------------- serve
\* serve calls c.setState(new): the read of c.state is the next step.
CallSetState(new) == srvPc' = "setState" /\ srvNew' = new /\ srvTmp' = 0
\* serve calls c.handleError(err), directly or from its deferred recover.
CallHandleError(err) == srvPc' = "handleError" /\ srvErr' = err

\* setState, first half: read c.state (no lock is held).
ServeSetStateRead ==
    /\ ~ProcessDown
    /\ srvPc = "setState"
    /\ srvTmp' = state
    /\ srvPc' = "setStateWrite"
    /\ UNCHANGED << state, sockVars, out, ioFailed, srvNew, srvErr, handler, midIdx, req, mwCalls,
                    rdVars, chanVars, pumpVars, forcePc, cliVars, serverVars, pureVars >>

\* setState, second half: write c.state if the new state is above the one read;
\* then the statement of serve (or apply) that follows the call.
ServeSetStateWrite ==
    /\ ~ProcessDown
    /\ srvPc = "setStateWrite"
    /\ state' = setState(srvTmp, state, srvNew)
    /\ srvTmp' = 0
    /\ srvPc' = CASE srvNew = connStateWaitingHeaders -> "select"
                  [] srvNew = connStateReceivedHeaders -> "lookup"
                  [] srvNew = connStateReceivingBody -> "decodeBody"
                  [] srvNew = connStateReceivedBody -> "apply"
                  [] OTHER -> "close"
    \* go c.readHeader(reqChan), after the header timer is made
    /\ rdPc' = IF srvNew = connStateWaitingHeaders THEN "decode" ELSE rdPc
    /\ UNCHANGED << sockVars, out, ioFailed, srvNew, srvErr, handler, midIdx, req, mwCalls, rdVal,
                    chanVars, pumpVars, forcePc, cliVars, serverVars, pureVars >>

\* A timer case that goes on as if a header had been received.
afterTimeout_serves == "lookup"

\* What the timer case of serve's select does: "c.close(); return".
afterTimeout == "close"

\* select, case <-headersTimeout.C: close and return.
ServeTimeout ==
    /\ ~ProcessDown
    /\ srvPc = "select"
    /\ srvPc' = afterTimeout
    /\ UNCHANGED << state, sockVars, out, ioFailed, srvLocals, rdVars, chanVars,
                    pumpVars, forcePc, cliVars, serverVars, pureVars >>

\* select, case req := <-reqChan: a nil request closes, a request goes on.
ServeRecvHeader ==
    /\ ~ProcessDown
    /\ srvPc = "select"
    /\ rdPc = "send"
    /\ rdPc' = "done"
    /\ IF rdVal = "nil"
         THEN srvPc' = "close" /\ UNCHANGED << srvNew, srvTmp >>
         ELSE CallSetState(connStateReceivedHeaders)
    /\ UNCHANGED << state, sockVars, out, ioFailed, srvErr, handler, midIdx, req, mwCalls, rdVal,
                    chanVars, pumpVars, forcePc, cliVars, serverVars, pureVars >>

\* handlerForID(request.Method): an unknown method is an UnimplementedMethod
\* error; a known one starts the middleware chain.
ServeLookup ==
    /\ ~ProcessDown
    /\ srvPc = "lookup"
    /\ \/ /\ CallHandleError(UnimplementedMethod)
          /\ UNCHANGED << handler, midIdx, req, mwCalls >>
       \/ \E h \in Handlers :
            /\ handler' = h
            /\ midIdx' = 1
            /\ UNCHANGED << req, mwCalls >>
            /\ srvPc' = "middlewares"
            /\ UNCHANGED srvErr
    /\ UNCHANGED << state, sockVars, out, ioFailed, srvNew, srvTmp, rdVars, chanVars,
                    pumpVars, forcePc, cliVars, serverVars, pureVars >>

\* A loop over the middlewares that passes one over.
nextMiddleware_skip(i) == i + 2

\* "for _, m := range c.server.allMiddlewares()": the index of the middleware
\* after the i-th, in the order of s.middlewares, which is that of the calls
\* of Use.
nextMiddleware(i) == i + 1

\* The request a middleware returns when it passes the request on: the one it
\* was given, marked by it.
middlewareResult(i, r) == Append(r, i)

\* One turn of "for _, m := range c.server.allMiddlewares()": "req, err =
\* m(req)"; the middleware passes the request on or rejects it; after the
\* last, setState(ReceivingBody).
ServeMiddleware ==
    /\ ~ProcessDown
    /\ srvPc = "middlewares"
    /\ IF midIdx > NumMiddlewares
         THEN /\ CallSetState(connStateReceivingBody)
              /\ UNCHANGED << srvErr, midIdx, req, mwCalls >>
         ELSE /\ mwCalls' = Append(mwCalls, [m |-> midIdx, got |-> req])
              /\ \/ /\ midIdx' = nextMiddleware(midIdx)
                    /\ req' = middlewareResult(midIdx, req)
                    /\ UNCHANGED << srvPc, srvErr, srvNew, srvTmp >>
                 \/ \E e \in UserErrors :
                       /\ CallHandleError(e)
                       /\ UNCHANGED << midIdx, req, srvNew, srvTmp >>
    /\ UNCHANGED << state, sockVars, out, ioFailed, handler, rdVars, chanVars,
                    pumpVars, forcePc, cliVars, serverVars, pureVars >>

\* Decode(c.rw): the body is decoded, or the read or the decoding fails (it
\* always fails on a closed socket); a panic in the decoding is an error of
\* Decode.
ServeDecodeBody ==
    /\ ~ProcessDown
    /\ srvPc = "decodeBody"
    /\ \E o \in CodecOutcomes :
         IF atEntry(o) = "ok" /\ ~rwClosed
           THEN /\ CallSetState(connStateReceivedBody)
                /\ UNCHANGED << srvErr, ioFailed >>
           ELSE /\ CallHandleError(PlainError)
                /\ ioFailed' = TRUE
                /\ UNCHANGED << srvNew, srvTmp >>
    /\ UNCHANGED << state, sockVars, out, handler, midIdx, req, mwCalls, rdVars, chanVars,
                    pumpVars, forcePc, cliVars, serverVars, pureVars >>

\* apply, up to the call of the handler: a declared input type that the data
\* does not fit is a TypeMismatch; a streamer gets its channel and its pump.
ServeApply ==
    /\ ~ProcessDown
    /\ srvPc = "apply"
    /\ \/ /\ handler.hasIn
          /\ CallHandleError(TypeMismatch)
          /\ UNCHANGED << pumpPc, hres >>
       \/ /\ srvPc' = "handler"
          /\ hres' = "running"
          /\ pumpPc' = IF handler.usesStreamer THEN "recv" ELSE pumpPc
          /\ UNCHANGED srvErr
    /\ UNCHANGED << state, sockVars, out, ioFailed, srvNew, srvTmp, handler, midIdx, req, mwCalls,
                    rdVars, ch, chClosed, pushed, pumpV, errored, forcePc, cliVars,
                    serverVars, pureVars >>

\* The handler calls Push: "i.ch <- v", which waits while the channel is full.
\* The n-th value pushed is n.
HandlerPush ==
    /\ ~ProcessDown
    /\ srvPc = "handler"
    /\ handler.usesStreamer
    /\ pushed < MaxPush
    /\ Len(ch) < StreamChanCap
    /\ ch' = Append(ch, pushed + 1)
    /\ pushed' = pushed + 1
    /\ UNCHANGED << state, sockVars, out, ioFailed, srvPc, srvLocals, rdVars,
                    chClosed, hres, pumpVars, forcePc, cliVars, serverVars, pureVars >>

\* The handler returns. A streaming apply goes on to close the channel. A
\* non-streaming apply returns the handler's error, or the error of encoding
\* the return value, or goes on to write the response. encode(retVal[0]) is
\* not the entry point: its panic unwinds apply and is recovered by serve's
\* deferred function, which calls handleError as for an error.
HandlerReturn ==
    /\ ~ProcessDown
    /\ srvPc = "handler"
    /\ \E e \in {NoError} \cup UserErrors :
         /\ hres' = e
         /\ IF handler.usesStreamer
              THEN srvPc' = "chanClose" /\ UNCHANGED srvErr
              ELSE IF e # NoError
                     THEN CallHandleError(e)
                     ELSE \/ srvPc' = "writeHeader" /\ UNCHANGED srvErr
                          \/ /\ handler.hasOut
                             /\ \E o \in {"error", "panic"} : CallHandleError(PlainError)
    /\ ioFailed' = (ioFailed \/ (hres' = NoError /\ srvPc' = "handleError"))
    /\ UNCHANGED << state, sockVars, out, srvNew, srvTmp, handler, midIdx, req, mwCalls,
                    rdVars, ch, chClosed, pushed, pumpVars, forcePc, cliVars,
                    serverVars, pureVars >>

\* The handler panics: serve's deferred recover calls handleError. apply never
\* reaches vChan.Close().
HandlerPanic ==
    /\ ~ProcessDown
    /\ srvPc = "handler"
    /\ hres' = PlainError
    /\ CallHandleError(PlainError)
    /\ UNCHANGED << state, sockVars, out, ioFailed, srvNew, srvTmp, handler, midIdx, req, mwCalls,
                    rdVars, ch, chClosed, pushed, pumpVars, forcePc, cliVars,
                    serverVars, pureVars >>

\* vChan.Close()
ApplyChanClose ==
    /\ ~ProcessDown
    /\ srvPc = "chanClose"
    /\ chClosed' = TRUE
    /\ srvPc' = "wgWait"
    /\ UNCHANGED << state, sockVars, out, ioFailed, srvLocals, rdVars, ch, pushed,
                    hres, pumpVars, forcePc, cliVars, serverVars, pureVars >>

\* A wait that returns whether or not the pump has called done().
wgWait_nowait(pp) == TRUE

\* wg.Wait() returns once the pump has called done().
wgWait(pp) == pp = "done"

\* wg.Wait(), then the handler's error is returned or the state is set to
\* WroteResponse.
ApplyWgWait ==
    /\ ~ProcessDown
    /\ srvPc = "wgWait"
    /\ wgWait(pumpPc)
    /\ IF hres # NoError
         THEN CallHandleError(hres) /\ UNCHANGED << srvNew, srvTmp >>
         ELSE CallSetState(connStateWroteResponse) /\ UNCHANGED srvErr
    /\ UNCHANGED << state, sockVars, out, ioFailed, handler, midIdx, req, mwCalls, rdVars,
                    chanVars, pumpVars, forcePc, cliVars, serverVars, pureVars >>

\* writeResponseHeader(respHeaders, false), the io.Copy.
ServeWriteHeader ==
    /\ ~ProcessDown
    /\ srvPc = "writeHeader"
    /\ \E ok \in WriteOutcomes :
         IF ok
           THEN /\ out' = Append(out, ResponseFrame(FALSE))
                /\ srvPc' = "setWriting"
                /\ UNCHANGED << srvErr, ioFailed >>
           ELSE /\ CallHandleError(PlainError)
                /\ ioFailed' = TRUE
                /\ UNCHANGED out
    /\ UNCHANGED << state, sockVars, srvNew, srvTmp, handler, midIdx, req, mwCalls, rdVars,
                    chanVars, pumpVars, forcePc, cliVars, serverVars, pureVars >>

\* writeResponseHeader, "c.state = connStateWritingResponse" after the write
\* succeeded: a plain assignment, not setState.
ServeSetWriting ==
    /\ ~ProcessDown
    /\ srvPc = "setWriting"
    /\ state' = connStateWritingResponse
    /\ srvPc' = "writeBody"
    /\ UNCHANGED << sockVars, out, ioFailed, srvLocals, rdVars, chanVars, pumpVars,
                    forcePc, cliVars, serverVars, pureVars >>

\* io.Copy(c.rw, respData): the return value is value 0.
ServeWriteBody ==
    /\ ~ProcessDown
    /\ srvPc = "writeBody"
    /\ \E ok \in WriteOutcomes :
         IF ok
           THEN /\ out' = Append(out, ValueBytes(0))
                /\ srvPc' = "close"
                /\ UNCHANGED << srvErr, ioFailed >>
           ELSE /\ CallHandleError(PlainError)
                /\ ioFailed' = TRUE
                /\ UNCHANGED out
    /\ UNCHANGED << state, sockVars, srvNew, srvTmp, handler, midIdx, req, mwCalls, rdVars,
                    chanVars, pumpVars, forcePc, cliVars, serverVars, pureVars >>

\* handleError in the serve task: the Error frame if the state allows it, then
\* the deferred close.
ServeHandleError ==
    /\ ~ProcessDown
    /\ srvPc = "handleError"
    /\ \E ok \in WriteOutcomes :
         /\ out' = handleError(out, state, srvErr, ok)
         /\ ioFailed' = (ioFailed \/ (handleErrorWrites(state) /\ ~ok))
    /\ srvPc' = "close"
    /\ UNCHANGED << state, sockVars, srvLocals, rdVars, chanVars, pumpVars,
                    forcePc, cliVars, serverVars, pureVars >>

\* ------------------------------------------------------------------- close
\* close, under c.mu: "if c.state == connStateClosed { return }" and
\* "c.state = connStateClosed". TRUE in the first component: close goes on to
\* close the socket.
CloseBegin(p) ==
    /\ mu = "free"
    /\ IF state = connStateClosed
         THEN UNCHANGED << state, mu >>
         ELSE state' = connStateClosed /\ mu' = p

\* close, the rest: c.rw.Close(), go c.server.notifyClosed(c), and the
\* deferred c.mu.Unlock().
CloseEnd(p) ==
    /\ mu = p
    /\ rwClosed' = TRUE
    /\ rwCloses' = rwCloses + 1
    /\ notifyPending' = notifyPending + 1
    /\ mu' = "free"

ServeCloseBegin ==
    /\ ~ProcessDown
    /\ srvPc = "close"
    /\ CloseBegin("serve")
    /\ srvPc' = IF state = connStateClosed THEN "done" ELSE "closeEnd"
    /\ UNCHANGED << rwClosed, rwCloses, notifyPending, inClients, waitClients, out,
                    ioFailed, srvLocals, rdVars, chanVars, pumpVars, forcePc,
                    cliVars, serverVars, pureVars >>

ServeCloseEnd ==
    /\ ~ProcessDown
    /\ srvPc = "closeEnd"
    /\ CloseEnd("serve")
    /\ srvPc' = "done"
    /\ UNCHANGED << state, inClients, waitClients, out, ioFailed, srvLocals, rdVars,
                    chanVars, pumpVars, forcePc, cliVars, serverVars, pureVars >>

\* ------------------------------------------------------------- readHeader
\* req.Decode(c.rw): the header is decoded, or the read or the decoding fails
\* (it always fails on a closed socket). The result is then offered on reqChan.
ReadHeaderDecode ==
    /\ ~ProcessDown
    /\ rdPc = "decode"
    /\ \/ ~rwClosed /\ rdVal' = "req"
       \/ rdVal' = "nil"
    /\ rdPc' = "send"
    /\ UNCHANGED << state, sockVars, out, ioFailed, srvPc, srvLocals, chanVars,
                    pumpVars, forcePc, cliVars, serverVars, pureVars >>

\* -------------------------------------------------------- serviceStreamer
\* The pump's "if errored { continue }".
pumpSkips(err) == err

\* stream.Recv(): at the end of a closed channel the pump calls done(); a value
\* received after an error is dropped; otherwise "if c.state ==
\* connStateReceivedBody" decides whether the response frame is flushed first.
PumpRecv ==
    /\ ~ProcessDown
    /\ pumpPc = "recv"
    /\ ch # << >> \/ chClosed
    /\ IF ch = << >>
         THEN pumpPc' = "done" /\ UNCHANGED << ch, pumpV >>
         ELSE /\ ch' = Tail(ch)
              /\ pumpV' = Head(ch)
              /\ pumpPc' = IF pumpSkips(errored) THEN "recv"
                           ELSE IF state = connStateReceivedBody THEN "writeHeader"
                           ELSE "writeValue"
    /\ UNCHANGED << state, sockVars, out, ioFailed, srvPc, srvLocals, rdVars,
                    chClosed, pushed, hres, errored, forcePc, cliVars, serverVars, pureVars >>

\* writeResponseHeader(h, true), the io.Copy.
PumpWriteHeader ==
    /\ ~ProcessDown
    /\ pumpPc = "writeHeader"
    /\ \E ok \in WriteOutcomes :
         IF ok
           THEN /\ out' = Append(out, ResponseFrame(TRUE))
                /\ pumpPc' = "setWriting"
                /\ UNCHANGED ioFailed
           ELSE /\ pumpPc' = "handleError"
                /\ ioFailed' = TRUE
                /\ UNCHANGED out
    /\ UNCHANGED << state, sockVars, srvPc, srvLocals, rdVars, chanVars, pumpV,
                    errored, forcePc, cliVars, serverVars, pureVars >>

\* writeResponseHeader, "c.state = connStateWritingResponse".
PumpSetWriting ==
    /\ ~ProcessDown
    /\ pumpPc = "setWriting"
    /\ state' = connStateWritingResponse
    /\ pumpPc' = "writeValue"
    /\ UNCHANGED << sockVars, out, ioFailed, srvPc, srvLocals, rdVars, chanVars,
                    pumpV, errored, forcePc, cliVars, serverVars, pureVars >>

\* serviceStreamer's "data, err := encode(v)": the unexported encode, with no
\* recover around it in the pump's task; a panic of the codec ends the task,
\* and with it the process, which closes its sockets.
pumpEncode(o) == o

\* encode(v), then io.Copy(c.rw, data): either may fail.
PumpWriteValue ==
    /\ ~ProcessDown
    /\ pumpPc = "writeValue"
    /\ \E o \in CodecOutcomes, ok \in WriteOutcomes :
         IF pumpEncode(o) = "panic"
           THEN /\ pumpPc' = "panic"
                /\ rwClosed' = TRUE
                /\ UNCHANGED << out, ioFailed >>
           ELSE /\ UNCHANGED rwClosed
                /\ IF pumpEncode(o) = "ok" /\ ok
                     THEN /\ out' = Append(out, ValueBytes(pumpV))
                          /\ pumpPc' = "recv"
                          /\ UNCHANGED ioFailed
                     ELSE /\ pumpPc' = "handleError"
                          /\ ioFailed' = TRUE
                          /\ UNCHANGED out
    /\ UNCHANGED << state, mu, rwCloses, notifyPending, inClients, waitClients, srvPc, srvLocals, rdVars, chanVars, pumpV,
                    errored, forcePc, cliVars, serverVars, pureVars >>

\* handleError in the pump (the error of a write or of encode is not a
\* managed Error).
PumpHandleError ==
    /\ ~ProcessDown
    /\ pumpPc = "handleError"
    /\ \E ok \in WriteOutcomes : out' = handleError(out, state, PlainError, ok)
    /\ pumpPc' = "close"
    /\ UNCHANGED << state, sockVars, ioFailed, srvPc, srvLocals, rdVars, chanVars,
                    pumpV, errored, forcePc, cliVars, serverVars, pureVars >>

PumpCloseBegin ==
    /\ ~ProcessDown
    /\ pumpPc = "close"
    /\ CloseBegin("pump")
    /\ IF state = connStateClosed
         THEN pumpPc' = "recv" /\ errored' = TRUE
         ELSE pumpPc' = "closeEnd" /\ UNCHANGED errored
    /\ UNCHANGED << rwClosed, rwCloses, notifyPending, inClients, waitClients, out,
                    ioFailed, srvPc, srvLocals, rdVars, chanVars, pumpV, forcePc,
                    cliVars, serverVars, pureVars >>

\* The end of close, then "errored = true" and the next turn of the loop.
PumpCloseEnd ==
    /\ ~ProcessDown
    /\ pumpPc = "closeEnd"
    /\ CloseEnd("pump")
    /\ pumpPc' = "recv"
    /\ errored' = TRUE
    /\ UNCHANGED << state, inClients, waitClients, out, ioFailed, srvPc, srvLocals,
                    rdVars, chanVars, pumpV, forcePc, cliVars, serverVars, pureVars >>

\* ------------------------------------------- forceShutdown and notifyClosed
\* forceShutdown takes s.mu and finds c in s.clients.
ForceShutdownBegin ==
    /\ ~ProcessDown
    /\ forcePc = "idle"
    /\ inClients
    /\ forcePc' = "close"
    /\ UNCHANGED << state, sockVars, out, ioFailed, srvPc, srvLocals, rdVars,
                    chanVars, pumpVars, cliVars, serverVars, pureVars >>

ForceCloseBegin ==
    /\ ~ProcessDown
    /\ forcePc = "close"
    /\ CloseBegin("force")
    /\ forcePc' = IF state = connStateClosed THEN "done" ELSE "closeEnd"
    /\ UNCHANGED << rwClosed, rwCloses, notifyPending, inClients, waitClients, out,
                    ioFailed, srvPc, srvLocals, rdVars, chanVars, pumpVars,
                    cliVars, serverVars, pureVars >>

\* The end of close, and forceShutdown's s.mu.Unlock().
ForceCloseEnd ==
    /\ ~ProcessDown
    /\ forcePc = "closeEnd"
    /\ CloseEnd("force")
    /\ forcePc' = "done"
    /\ UNCHANGED << state, inClients, waitClients, out, ioFailed, srvPc, srvLocals,
                    rdVars, chanVars, pumpVars, cliVars, serverVars, pureVars >>

\* notifyClosed(c), under s.mu: delete(s.clients, c); s.waitClients.Done().
NotifyClosed ==
    /\ ~ProcessDown
    /\ notifyPending > 0
    /\ forcePc \notin {"close", "closeEnd"}
    /\ notifyPending' = notifyPending - 1
    /\ inClients' = FALSE
    /\ waitClients' = waitClients - 1
    /\ UNCHANGED << state, mu, rwClosed, rwCloses, out, ioFailed, srvPc, srvLocals,
                    rdVars, chanVars, pumpVars, forcePc, cliVars, serverVars, pureVars >>

\* ------------------------------------------------------------------ Client
\* performRequest, after the request is written: Peek(3) waits for the first
\* bytes of the reply and classifies them; the end of the stream is an error.
ClientPeek ==
    /\ cliPc = "peek"
    /\ IF out # << >>
         THEN /\ cliPc' = CASE out[1].t = "error" -> "managedError"
                            [] out[1].t = "response" -> "reading"
                            [] OTHER -> "corruptStream"
              /\ cliPos' = IF out[1].t = "response" THEN 1 ELSE 0
         ELSE /\ rwClosed
              /\ cliPc' = "readError"
              /\ UNCHANGED cliPos
    /\ UNCHANGED << state, sockVars, out, ioFailed, srvPc, srvLocals, rdVars,
                    chanVars, pumpVars, forcePc, yielded, serverVars, pureVars >>

\* What Decode(buf) returns for what is next in the stream, decoding failing
\* or not. A value the server encoded decodes to itself unless decoding fails
\* (its struct type is not registered with the client). A frame in the place
\* of a value is not refused: its first byte, 0x79, has the type tag of an
\* Array (0x79 >> 5 = 3) and the low bit set, so decodeArray reads a size
\* varint through the magic and the byte after it (for the Error frame of an
\* internal error, 79 79 65 20 C0 A0 C0, the size is 9378064), then decodes
\* elements up to the end of the stream, and returns them with no error.
FrameAsArray == -1
clientDecode(f, decoded) ==
    IF ~decoded THEN [err |-> TRUE, v |-> 0]
    ELSE IF f.t = "value" THEN [err |-> FALSE, v |-> f.a]
    ELSE [err |-> FALSE, v |-> FrameAsArray]

\* One turn of the loop of DoRequestStreamed's task: "if err != nil { break }",
\* else "ch <- v".
readerNext(r) == IF r.err THEN "break" ELSE "yield"

\* DoRequestStreamed's task: Decode(buf), then "ch <- v" or, on an error (the
\* end of the stream is one), the deferred close(ch) and buf.Close(). Decoding
\* a frame as an array reads up to the end of the stream, so it returns once
\* the server has closed the socket.
ClientRead ==
    /\ cliPc = "reading"
    /\ IF cliPos < Len(out)
         THEN \E decoded \in BOOLEAN :
                LET f == out[cliPos + 1]
                    r == clientDecode(f, decoded)
                    n == readerNext(r)
                IN  /\ f.t # "value" => rwClosed
                    /\ yielded' = IF n = "yield" THEN Append(yielded, r.v) ELSE yielded
                    /\ cliPos' = IF n = "break" THEN cliPos
                                 ELSE IF f.t = "value" THEN cliPos + 1
                                 ELSE Len(out)
                    /\ cliPc' = IF n = "break" THEN "closed" ELSE cliPc
         ELSE /\ rwClosed
              /\ cliPc' = "closed"
              /\ UNCHANGED << cliPos, yielded >>
    /\ UNCHANGED << state, sockVars, out, ioFailed, srvPc, srvLocals, rdVars,
                    chanVars, pumpVars, forcePc, serverVars, pureVars >>

\* ------------------------------------------------------------------ Server
\* An unrecovered panic in a caller of Shutdown ends the process.
Crashed == \E k \in 1..NumCallers : shutPc[k] = "panic"

Callers == 1..NumCallers
Conns == 1..MaxConns

\* StartListener, up to the loop: "s.stopChan = make(chan bool)".
StartListener ==
    /\ ~Crashed
    /\ UNCHANGED fails
    /\ UNCHANGED smu
    /\ acceptPc = "notStarted"
    /\ stopChan' = "open"
    /\ acceptPc' = "accept"
    /\ UNCHANGED << pureVars, connVars, acceptErr, acceptRet, tmpDelay, stopping, shutPc,
                    ctxDone, clients, connClosed, accepted, notifyQueue >>

\* listener.Accept() returns a connection: "tmpDelay = 0", and newConn up to
\* its s.mu.Lock(): the wait group's Add(1) and the making of the srvConn.
AcceptConn ==
    /\ ~Crashed
    /\ acceptPc = "accept"
    /\ accepted < MaxConns
    /\ smu = "free"
    /\ smu' = "newConn"
    /\ acceptPc' = "insert"
    /\ tmpDelay' = 0
    /\ fails' = 0
    /\ waitClients' = waitClients + 1
    /\ UNCHANGED << pureVars, connOnly, acceptErr, acceptRet, stopChan, stopping, shutPc,
                    ctxDone, clients, connClosed, accepted, notifyQueue >>

\* newConn, the rest: "s.clients[c] = true", s.mu.Unlock(), and back in the
\* loop "go c.serve(connCtx)".
NewConnInsert ==
    /\ ~Crashed
    /\ UNCHANGED fails
    /\ acceptPc = "insert"
    /\ smu = "newConn"
    /\ accepted' = accepted + 1
    /\ clients' = clients \cup {accepted + 1}
    /\ smu' = "free"
    /\ acceptPc' = "accept"
    /\ UNCHANGED << pureVars, connVars, acceptErr, acceptRet, tmpDelay, stopChan, stopping,
                    shutPc, ctxDone, connClosed, notifyQueue >>

\* listener.Accept() returns an error: a net.Error, one more in a row, or
\* another one.
AcceptError ==
    /\ ~Crashed
    /\ UNCHANGED smu
    /\ acceptPc = "accept"
    /\ \E e \in {"net", "other"} :
         /\ acceptErr' = e
         /\ e = "net" => fails < MaxFails
         /\ fails' = IF e = "net" THEN fails + 1 ELSE fails
    /\ acceptPc' = "select"
    /\ UNCHANGED << pureVars, connVars, acceptRet, tmpDelay, stopChan, stopping, shutPc,
                    ctxDone, clients, connClosed, accepted, notifyQueue >>

\* A back-off with no ceiling.
nextDelay_nocap(d) == IF d = 0 THEN BackoffFirst ELSE d * 2

\* The back-off of the accept loop after a net.Error.
nextDelay(d) ==
    LET n == IF d = 0 THEN BackoffFirst ELSE d * 2
    IN  IF n > BackoffMax THEN BackoffMax ELSE n

\* "select { case <-s.stopChan: return ErrServerClosed; default: }" and what
\* follows it. The receive is taken when a caller of Shutdown is blocked in
\* its send on this channel (the caller then goes on) or when the channel is
\* closed; otherwise the default is.
AcceptSelect ==
    /\ ~Crashed
    /\ UNCHANGED fails
    /\ UNCHANGED smu
    /\ acceptPc = "select"
    /\ IF \E k \in Callers : shutPc[k] = "sending"
         THEN \E k \in Callers :
                /\ shutPc[k] = "sending"
                /\ shutPc' = [shutPc EXCEPT ![k] = "closeChan"]
                /\ acceptPc' = "returned"
                /\ acceptRet' = "ErrServerClosed"
                /\ UNCHANGED tmpDelay
         ELSE /\ UNCHANGED shutPc
              /\ IF stopChan = "closed"
                   THEN /\ acceptPc' = "returned"
                        /\ acceptRet' = "ErrServerClosed"
                        /\ UNCHANGED tmpDelay
                   ELSE IF acceptErr = "net"
                          THEN /\ tmpDelay' = nextDelay(tmpDelay)
                               /\ acceptPc' = "sleep"
                               /\ UNCHANGED acceptRet
                          ELSE /\ acceptPc' = "returned"
                               /\ acceptRet' = "error"
                               /\ UNCHANGED tmpDelay
    /\ UNCHANGED << pureVars, connVars, acceptErr, stopChan, stopping, ctxDone, clients,
                    connClosed, accepted, notifyQueue >>

\* "time.Sleep(tmpDelay); continue".
AcceptSleep ==
    /\ ~Crashed
    /\ UNCHANGED fails
    /\ UNCHANGED smu
    /\ acceptPc = "sleep"
    /\ acceptPc' = "accept"
    /\ UNCHANGED << pureVars, connVars, acceptErr, acceptRet, tmpDelay, stopChan, stopping,
                    shutPc, ctxDone, clients, connClosed, accepted, notifyQueue >>

\* Shutdown: "if s.stopping { return }". No lock is held, so the read and the
\* write that follows are two steps.
ShutdownCall(k) ==
    /\ ~Crashed
    /\ UNCHANGED fails
    /\ UNCHANGED smu
    /\ shutPc[k] = "idle"
    /\ shutPc' = [shutPc EXCEPT ![k] = IF stopping THEN "returned" ELSE "setStopping"]
    /\ UNCHANGED << pureVars, connVars, acceptPc, acceptErr, acceptRet, tmpDelay, stopChan,
                    stopping, ctxDone, clients, connClosed, accepted, notifyQueue >>

\* "s.stopping = true".
ShutdownSetStopping(k) ==
    /\ ~Crashed
    /\ UNCHANGED fails
    /\ UNCHANGED smu
    /\ shutPc[k] = "setStopping"
    /\ stopping' = TRUE
    /\ shutPc' = [shutPc EXCEPT ![k] = "send"]
    /\ UNCHANGED << pureVars, connVars, acceptPc, acceptErr, acceptRet, tmpDelay, stopChan,
                    ctxDone, clients, connClosed, accepted, notifyQueue >>

\* "s.stopChan <- true", begun: a send on a nil channel blocks for ever, a send
\* on a closed channel panics, a send on the unbuffered channel waits for a
\* receiver.
ShutdownSendBegin(k) ==
    /\ ~Crashed
    /\ UNCHANGED fails
    /\ UNCHANGED smu
    /\ shutPc[k] = "send"
    /\ shutPc' = [shutPc EXCEPT ![k] =
                    CASE stopChan = "nil" -> "sendNil"
                      [] stopChan = "closed" -> "panic"
                      [] OTHER -> "sending"]
    /\ UNCHANGED << pureVars, connVars, acceptPc, acceptErr, acceptRet, tmpDelay, stopChan,
                    stopping, ctxDone, clients, connClosed, accepted, notifyQueue >>

\* The channel is closed under a blocked sender: the send panics.
ShutdownSendPanic(k) ==
    /\ ~Crashed
    /\ UNCHANGED fails
    /\ UNCHANGED smu
    /\ shutPc[k] = "sending"
    /\ stopChan = "closed"
    /\ shutPc' = [shutPc EXCEPT ![k] = "panic"]
    /\ UNCHANGED << pureVars, connVars, acceptPc, acceptErr, acceptRet, tmpDelay, stopChan,
                    stopping, ctxDone, clients, connClosed, accepted, notifyQueue >>

\* "close(s.stopChan)" and the start of the ticker; closing a closed channel
\* panics.
ShutdownCloseChan(k) ==
    /\ ~Crashed
    /\ UNCHANGED fails
    /\ UNCHANGED smu
    /\ shutPc[k] = "closeChan"
    /\ IF stopChan = "closed"
         THEN /\ shutPc' = [shutPc EXCEPT ![k] = "panic"]
              /\ UNCHANGED stopChan
         ELSE /\ stopChan' = "closed"
              /\ shutPc' = [shutPc EXCEPT ![k] = "poll"]
    /\ UNCHANGED << pureVars, connVars, acceptPc, acceptErr, acceptRet, tmpDelay, stopping,
                    ctxDone, clients, connClosed, accepted, notifyQueue >>

\* The context given to Shutdown expires.
CtxDone(k) ==
    /\ ~Crashed
    /\ UNCHANGED fails
    /\ UNCHANGED smu
    /\ shutPc[k] # "idle"
    /\ ~ctxDone[k]
    /\ ctxDone' = [ctxDone EXCEPT ![k] = TRUE]
    /\ UNCHANGED << pureVars, connVars, acceptPc, acceptErr, acceptRet, tmpDelay, stopChan,
                    stopping, shutPc, clients, connClosed, accepted, notifyQueue >>

\* "case <-poll.C: if len(s.clients) == 0 { return }"; a tick that finds a
\* client changes nothing. The set is read with s.mu not taken, whoever holds
\* it.
ShutdownPoll(k) ==
    /\ ~Crashed
    /\ UNCHANGED fails
    /\ UNCHANGED smu
    /\ shutPc[k] = "poll"
    /\ clients = {}
    /\ shutPc' = [shutPc EXCEPT ![k] = "returned"]
    /\ UNCHANGED << pureVars, connVars, acceptPc, acceptErr, acceptRet, tmpDelay, stopChan,
                    stopping, ctxDone, clients, connClosed, accepted, notifyQueue >>

\* "case <-ctx.Done(): s.forceShutdown(); return". forceShutdown, under s.mu,
\* closes every connection of s.clients; close does nothing to a connection
\* that is already closed, and starts notifyClosed for the others.
ShutdownForce(k) ==
    /\ ~Crashed
    /\ UNCHANGED fails
    /\ smu = "free"
    /\ UNCHANGED smu
    /\ shutPc[k] = "poll"
    /\ ctxDone[k]
    /\ connClosed' = [c \in Conns |-> connClosed[c] \/ c \in clients]
    /\ notifyQueue' = notifyQueue \cup {c \in clients : ~connClosed[c]}
    /\ shutPc' = [shutPc EXCEPT ![k] = "returned"]
    /\ UNCHANGED << pureVars, connVars, acceptPc, acceptErr, acceptRet, tmpDelay, stopChan,
                    stopping, ctxDone, clients, accepted >>

\* The serve task of an accepted connection comes to its close.
ServeExit(c) ==
    /\ ~Crashed
    /\ UNCHANGED fails
    /\ UNCHANGED smu
    /\ c <= accepted
    /\ ~connClosed[c]
    /\ connClosed' = [connClosed EXCEPT ![c] = TRUE]
    /\ notifyQueue' = notifyQueue \cup {c}
    /\ UNCHANGED << pureVars, connVars, acceptPc, acceptErr, acceptRet, tmpDelay, stopChan,
                    stopping, shutPc, ctxDone, clients, accepted >>

\* notifyClosed(c): s.mu.Lock(), delete(s.clients, c), s.waitClients.Done().
ServerNotifyClosed(c) ==
    /\ ~Crashed
    /\ UNCHANGED fails
    /\ smu = "free"
    /\ c \in notifyQueue
    /\ smu' = "notifyClosed"
    /\ notifyQueue' = notifyQueue \ {c}
    /\ clients' = clients \ {c}
    /\ waitClients' = waitClients - 1
    /\ UNCHANGED << pureVars, connOnly, acceptPc, acceptErr, acceptRet, tmpDelay, stopChan,
                    stopping, shutPc, ctxDone, connClosed, accepted >>

\* notifyClosed, the deferred s.mu.Unlock().
ServerNotifyUnlock ==
    /\ ~Crashed
    /\ UNCHANGED fails
    /\ smu = "notifyClosed"
    /\ smu' = "free"
    /\ UNCHANGED << pureVars, connVars, acceptPc, acceptErr, acceptRet, tmpDelay, stopChan,
                    stopping, shutPc, ctxDone, clients, connClosed, accepted,
                    notifyQueue >>

\* ----------------------------------------------------------- specification
\* One connection, just accepted.
InitConn ==
    /\ state = connStateNew
    /\ mu = "free"
    /\ rwClosed = FALSE
    /\ rwCloses = 0
    /\ notifyPending = 0
    /\ out = << >>
    /\ ioFailed = FALSE
    /\ srvPc = "setState"
    /\ srvNew = connStateWaitingHeaders
    /\ srvTmp = 0
    /\ srvErr = NoError
    /\ handler = NoHandler
    /\ midIdx = 0
    /\ req = << >>
    /\ mwCalls = << >>
    /\ rdPc = "off"
    /\ rdVal = "nil"
    /\ ch = << >>
    /\ chClosed = FALSE
    /\ pushed = 0
    /\ hres = "notCalled"
    /\ pumpPc = "off"
    /\ pumpV = 0
    /\ errored = FALSE
    /\ forcePc = "idle"
    /\ cliPc = "peek"
    /\ cliPos = 0
    /\ yielded = << >>

\* A Server as NewServer returns it.
InitNewServer ==
    /\ acceptPc = "notStarted"
    /\ acceptErr = "none"
    /\ acceptRet = "none"
    /\ tmpDelay = 0
    /\ stopChan = "nil"
    /\ stopping = FALSE
    /\ shutPc = [k \in Callers |-> "idle"]
    /\ ctxDone = [k \in Callers |-> FALSE]
    /\ clients = {}
    /\ connClosed = [c \in Conns |-> FALSE]
    /\ accepted = 0
    /\ notifyQueue = {}
    /\ smu = "free"
    /\ fails = 0

\* No call of the codec.
InitNoCodec ==
    /\ cdIn = << >>
    /\ cdPc = "idle"
    /\ cdBytes = << >>
    /\ cdOut = << >>

\* No integer is being encoded.
InitNoScalar ==
    /\ scV = << >>
    /\ scSigned = FALSE
    /\ scPc = "idle"
    /\ scBytes = << >>
    /\ scStream = << >>
    /\ scOut = << >>

\* No call of performRequest.
InitNoRequest ==
    /\ reply = << >>
    /\ prPc = "idle"
    /\ prHeader = << >>
    /\ prResp = FALSE
    /\ prErr = NoError
    /\ prConn = "none"

\* Spec: the connection has been registered by newConn.
Init ==
    /\ InitConn
    /\ inClients = TRUE
    /\ waitClients = 1
    /\ InitNewServer
    /\ InitNoRequest
    /\ InitNoScalar
    /\ InitNoCodec

\* SpecServer: no connection yet.
InitServer ==
    /\ InitConn
    /\ inClients = FALSE
    /\ waitClients = 0
    /\ InitNewServer
    /\ InitNoRequest
    /\ InitNoScalar
    /\ InitNoCodec

Next ==
    \/ ServeSetStateRead
    \/ ServeSetStateWrite
    \/ ServeTimeout
    \/ ServeRecvHeader
    \/ ServeLookup
    \/ ServeMiddleware
    \/ ServeDecodeBody
    \/ ServeApply
    \/ HandlerPush
    \/ HandlerReturn
    \/ HandlerPanic
    \/ ApplyChanClose
    \/ ApplyWgWait
    \/ ServeWriteHeader
    \/ ServeSetWriting
    \/ ServeWriteBody
    \/ ServeHandleError
    \/ ServeCloseBegin
    \/ ServeCloseEnd
    \/ ReadHeaderDecode
    \/ PumpRecv
    \/ PumpWriteHeader
    \/ PumpSetWriting
    \/ PumpWriteValue
    \/ PumpHandleError
    \/ PumpCloseBegin
    \/ PumpCloseEnd
    \/ ForceShutdownBegin
    \/ ForceCloseBegin
    \/ ForceCloseEnd
    \/ NotifyClosed
    \/ ClientPeek
    \/ ClientRead

Spec == Init /\ [][Next]_vars

NextServer ==
    \/ StartListener
    \/ AcceptConn
    \/ NewConnInsert
    \/ AcceptError
    \/ AcceptSelect
    \/ AcceptSleep
    \/ \E k \in Callers : ShutdownCall(k)
    \/ \E k \in Callers : ShutdownSetStopping(k)
    \/ \E k \in Callers : ShutdownSendBegin(k)
    \/ \E k \in Callers : ShutdownSendPanic(k)
    \/ \E k \in Callers : ShutdownCloseChan(k)
    \/ \E k \in Callers : CtxDone(k)
    \/ \E k \in Callers : ShutdownPoll(k)
    \/ \E k \in Callers : ShutdownForce(k)
    \/ \E c \in Conns : ServeExit(c)
    \/ \E c \in Conns : ServerNotifyClosed(c)
    \/ ServerNotifyUnlock

SpecServer == InitServer /\ [][NextServer]_vars

\* The accept loop and the connections it makes, with no call of Shutdown.
NextAccept ==
    \/ StartListener
    \/ AcceptConn
    \/ NewConnInsert
    \/ AcceptError
    \/ AcceptSelect
    \/ AcceptSleep
    \/ \E c \in Conns : ServeExit(c)
    \/ \E c \in Conns : ServerNotifyClosed(c)
    \/ ServerNotifyUnlock

SpecAccept == InitServer /\ [][NextAccept]_vars

\* Every task that can take a step takes one: the accept loop once Accept has
\* returned, a caller of Shutdown once it has called, a context that expires,
\* serve and notifyClosed. What the listener delivers and when StartListener
\* and Shutdown are called is left to the environment.
FairSpecServer ==
    /\ SpecServer
    /\ WF_vars(AcceptSelect)
    /\ WF_vars(AcceptSleep)
    /\ WF_vars(NewConnInsert)
    /\ WF_vars(ServerNotifyUnlock)
    /\ \A k \in Callers :
         /\ WF_vars(ShutdownSetStopping(k))
         /\ WF_vars(ShutdownSendBegin(k))
         /\ WF_vars(ShutdownSendPanic(k))
         /\ WF_vars(ShutdownCloseChan(k))
         /\ WF_vars(CtxDone(k))
         /\ WF_vars(ShutdownPoll(k))
         /\ WF_vars(ShutdownForce(k))
    /\ \A c \in Conns :
         /\ WF_vars(ServeExit(c))
         /\ WF_vars(ServerNotifyClosed(c))

\* ------------------------------------------------------------- properties
\* What the socket carries, by kind.
IsValue(f) == f.t = "value"
IsResponse(f) == f.t = "response"
IsError(f) == f.t = "error"
Count(seq, P(_)) == Len(SelectSeq(seq, P))
\* The values written to the socket, in the order of their writing.
WrittenValues == [i \in 1..Count(out, IsValue) |-> SelectSeq(out, IsValue)[i].a]
\* The values the handler has pushed, in the order of the pushes.
PushedValues == [i \in 1..pushed |-> i]
IsPrefix(a, b) == Len(a) <= Len(b) /\ \A i \in 1..Len(a) : a[i] = b[i]

\* C1: the connection state never decreases along New < WaitingHeaders < ... <
\* Closed, under any interleaving of serve, the pump, the timer and
\* close/forceShutdown; a Closed connection stays Closed.
StateNeverDecreases == [][state' >= state]_vars

\* C2: a connection whose request reached a registered handler that returned
\* without error has exactly one Response frame written before it is closed,
\* whatever number of values a streaming handler pushed. Stated for the runs in
\* which no read, write or encoding failed and no shutdown was forced.
OneResponsePerRequest ==
    (srvPc = "done" /\ hres = NoError /\ ~ioFailed /\ forcePc = "idle")
        => Count(out, IsResponse) = 1

\* C3: no Error frame is written after a Response frame, and at most one Error
\* frame is written: an error detected in state WritingResponse or later only
\* closes the connection.
NoErrorAfterResponse ==
    /\ \A i, j \in DOMAIN out : (IsResponse(out[i]) /\ IsError(out[j])) => j < i
    /\ Count(out, IsError) <= 1

\* C4: for a streaming handler the Response frame with stream = true is
\* written once, before the bytes of the first pushed value: no value is
\* written before it, and it is not written again for later values.
StreamResponseFirst ==
    handler.usesStreamer =>
        /\ \A i \in DOMAIN out :
              IsValue(out[i]) => \E j \in 1..(i - 1) : out[j] = ResponseFrame(TRUE)
        /\ Count(out, IsResponse) <= 1

\* C5: the values of a streamed response are written in the order of the
\* pushes, none lost (unless a write or an encoding failed) and none twice; the
\* client's channel yields a prefix of the pushed values in that order, and
\* once closed it yields nothing more.
StreamOrder ==
    /\ [](handler.usesStreamer =>
            /\ IsPrefix(WrittenValues, PushedValues)
            /\ (pumpPc = "done" /\ ~errored) => WrittenValues = PushedValues
            /\ IsPrefix(yielded, PushedValues))
    /\ [][cliPc = "closed" => (cliPc' = "closed" /\ yielded' = yielded)]_vars

\* C6: when a streaming handler has returned without error and apply has
\* returned, the pump has drained the closed channel: every value pushed was
\* received by the pump, and written unless a write or an encoding failed.
PumpDrained ==
    (handler.usesStreamer /\ hres = NoError
        /\ srvPc \notin {"handler", "chanClose", "wgWait"})
        => /\ chClosed /\ ch = << >>
           /\ pumpPc = "done"
           /\ ~errored => WrittenValues = PushedValues

\* apply has returned nil for a streaming handler that pushed two values, both
\* written, and serve is about to close the connection.
DrainedBeforeClose ==
    /\ handler.usesStreamer
    /\ hres = NoError
    /\ srvPc = "close"
    /\ pushed >= 2
    /\ WrittenValues = PushedValues

\* C7: a call of Shutdown eventually returns, the poll finding no client or the
\* expiry of the context forcing the connections closed, whatever the accept
\* loop is doing: blocked in Accept, not started, or returned.
ShutdownReturns ==
    \A k \in Callers : (shutPc[k] # "idle") ~> (shutPc[k] = "returned")

\* C8: once Shutdown has been called, the server accepts no further
\* connection: from the moment a call has set s.stopping, the accept loop makes
\* no new srvConn.
NoAcceptAfterShutdown == [][stopping => accepted' = accepted]_vars

\* C9: after Shutdown is called on a server whose accept loop is running (the
\* call has come to its send on the channel StartListener made), StartListener
\* eventually returns ErrServerClosed.
ListenerReturnsClosed ==
    (acceptPc \in {"accept", "select", "sleep"} /\ \E k \in Callers : shutPc[k] = "sending")
        ~> (acceptPc = "returned" /\ acceptRet = "ErrServerClosed")

\* C10: Shutdown is idempotent: of the calls made one after another or at the
\* same time, one only sends on the stop channel and closes it, and no call
\* faults.
ShutdownIdempotent ==
    /\ \A k \in Callers : shutPc[k] # "panic"
    /\ Cardinality({k \in Callers :
          shutPc[k] \in {"sending", "sendNil", "closeChan"}}) <= 1

\* The header timer fired before serve received the header: serve has left its
\* select and readHeader's result was never received.
TimedOut == srvPc \notin {"setState", "setStateWrite", "select"} /\ rdPc \in {"decode", "send"}

UnimplementedReported ==
    srvErr = UnimplementedMethod =>
        /\ hres = "notCalled"
        /\ midIdx = 0
        /\ mwCalls = << >>
        /\ srvNew = connStateReceivedHeaders
        /\ \A i \in DOMAIN out :
              out[i] = ErrorFrame(ErrorKindUnimplementedMethod, "empty")
        /\ Len(out) <= 1
        /\ (srvPc = "done" /\ ~ioFailed /\ forcePc = "idle")
              => (Len(out) = 1 /\ rwClosed)

\* The method was unknown, the Error frame is written and the connection is
\* closed.
UnimplementedClosed ==
    /\ srvErr = UnimplementedMethod
    /\ srvPc = "done"
    /\ out = << ErrorFrame(ErrorKindUnimplementedMethod, "empty") >>
    /\ rwClosed

\* The request after the first n middlewares have passed it on.
PassedBy(n) == [i \in 1..n |-> i]

\* A middleware has rejected the request: the last one called returned no
\* request.
Rejected == Len(mwCalls) > Len(req)

\* C13: the middlewares are invoked in the order of their registration, each
\* with the request the one before it returned, and the handler only after
\* all of them; when one returns an error, no later middleware and no handler
\* is invoked, the body is not decoded, an Error frame is written (unless its
\* write fails or a forced shutdown closed the connection) and the connection
\* is closed.
MiddlewareOrder ==
    /\ \A j \in DOMAIN mwCalls :
          mwCalls[j].m = j /\ mwCalls[j].got = PassedBy(j - 1)
    /\ hres # "notCalled" =>
          (Len(mwCalls) = NumMiddlewares /\ req = PassedBy(NumMiddlewares))
    /\ Rejected =>
          /\ srvErr \in UserErrors
          /\ Len(mwCalls) = Len(req) + 1
          /\ hres = "notCalled"
          /\ srvNew = connStateReceivedHeaders
          /\ srvPc \in {"handleError", "close", "closeEnd", "done"}
          /\ \A i \in DOMAIN out :
                out[i] = ErrorFrame(managedKind(srvErr), managedPayload(srvErr))
          /\ Len(out) <= 1
          /\ (srvPc = "done" /\ ~ioFailed /\ forcePc = "idle")
                => (Len(out) = 1 /\ rwClosed)

\* The last middleware rejected the request with a managed error after the
\* others passed it on; the Error frame is written and the connection closed.
RejectedByLast ==
    /\ Rejected
    /\ Len(mwCalls) = NumMiddlewares
    /\ NumMiddlewares >= 2
    /\ srvPc = "done"
    /\ out = << ErrorFrame(ErrorKindManagedError, "user") >>
    /\ rwClosed

\* Whether an error value is an Error (a managed error), and the fields of
\* the Error values of the model.
IsErrorValue(err) == err \in {ManagedError, UnimplementedMethod, TypeMismatch}
FieldsOf(err) ==
    CASE err = ManagedError ->
            [Kind |-> ErrorKindManagedError, Payload |-> "user"]
      [] err = UnimplementedMethod ->
            [Kind |-> ErrorKindUnimplementedMethod, Payload |-> "empty"]
      [] err = TypeMismatch ->
            [Kind |-> ErrorKindTypeMismatch, Payload |-> "empty"]
\* The Error frame the reporting of err is to produce.
FrameFor(err) ==
    IF IsErrorValue(err)
      THEN ErrorFrame(FieldsOf(err).Kind, FieldsOf(err).Payload)
      ELSE ErrorFrame(ErrorKindInternalError, "empty")
ReportableState == state >= connStateReceivedHeaders /\ state <= connStateReceivedBody

\* C14: when an error is reported on a connection whose state is between
\* ReceivedHeaders and ReceivedBody, the Error frame written carries the kind,
\* headers, identifier and user data of the error if it is an Error value, and
\* kind InternalError with empty headers, identifier and user data otherwise;
\* nothing else is written, and nothing at all only if the write fails.
ErrorFrameContent ==
    [][ /\ (srvPc = "handleError" /\ srvPc' # srvPc /\ ReportableState) =>
              \/ out' = Append(out, FrameFor(srvErr))
              \/ out' = out /\ ioFailed'
        /\ (pumpPc = "handleError" /\ pumpPc' # pumpPc /\ ReportableState) =>
              \/ out' = Append(out, FrameFor(PlainError))
              \/ out' = out /\ ioFailed'
      ]_vars

\* The handler returned a managed error, and serve has written its Error frame
\* with the handler's kind, headers, identifier and user data.
ManagedErrorWritten ==
    /\ hres = ManagedError
    /\ srvErr = ManagedError
    /\ srvPc = "close"
    /\ out = << ErrorFrame(ErrorKindManagedError, "user") >>

\* C15: a panic raised while encoding or decoding a value becomes an error at
\* the entry point and never ends the task that called the codec: not in
\* serve's decoding of the body, not in apply's encoding of the return value,
\* not in the pump's encoding of a pushed value.
CodecPanicContained == pumpPc # "panic" /\ srvPc # "panic"

\* C16: every read and every write of the live-connection set is made with
\* the server mutex held: a step that changes s.clients is taken by the task
\* that holds s.mu (or takes it for the step), and the poll of Shutdown reads
\* the set only while no other task is inside a section guarded by s.mu.
ClientsUnderMutex ==
    [][ /\ clients' # clients => smu \in {"free", "newConn"}
        /\ \A k \in Callers :
              (shutPc[k] = "poll" /\ shutPc'[k] = "returned") => smu = "free"
      ]_vars

Min(a, b) == IF a < b THEN a ELSE b

\* C18: in the accept loop the k-th accept failure in a row that is a
\* net.Error sleeps min(5ms * 2^(k-1), 1s); an accepted connection resets the
\* delay, so that the failure after it sleeps 5ms; an accept error that is not
\* a net.Error makes StartListener return that error.
BackoffSchedule ==
    /\ acceptPc = "sleep" =>
          (fails >= 1 /\ tmpDelay = Min(BackoffFirst * 2^(fails - 1), BackoffMax))
    /\ acceptPc = "insert" => (tmpDelay = 0 /\ fails = 0)
    /\ (acceptPc = "select" /\ acceptErr = "net") =>
          tmpDelay = (IF fails = 1 THEN 0
                      ELSE Min(BackoffFirst * 2^(fails - 2), BackoffMax))
    /\ acceptPc = "returned" => (acceptErr = "other" /\ acceptRet = "error")

\* The loop sleeps the ceiling after enough failures in a row, a connection
\* having been accepted before them.
BackoffAtCeiling ==
    /\ acceptPc = "sleep"
    /\ accepted >= 1
    /\ BackoffFirst * 2^(fails - 1) > BackoffMax
    /\ tmpDelay = BackoffMax

\* ---------------------------------------------------------------------
\* Client.performRequest.

magicRequest == << 121, 121, 114 >>
magicResponse == << 121, 121, 82 >>
magicError == << 121, 121, 101 >>

\* The bytes a reply is made of: those of the three magics.
ReplyBytes == {121, 114, 82, 101}

\* The replies of the server, as far as Peek(3) looks.
Replies == UNION {[1..n -> ReplyBytes] : n \in 0..MaxReply}

\* A switch that takes every reply for a Response.
classify_response(header) == "decodeResponse"

\* "switch { case bytes.Equal(header, magicError): ... case
\* bytes.Equal(header, magicResponse): ... default: ... }".
classify(header) ==
    IF header = magicError THEN "decodeError"
    ELSE IF header = magicResponse THEN "decodeResponse"
    ELSE "corrupt"

\* A call of performRequest, its reply chosen.
InitRequest ==
    /\ reply \in Replies
    /\ prPc = "encode"
    /\ prHeader = << >>
    /\ prResp = FALSE
    /\ prErr = NoError
    /\ prConn = "none"

\* performRequest returns err with no Response.
prFail(err, conn) ==
    /\ prPc' = "returned"
    /\ prErr' = err
    /\ prResp' = FALSE
    /\ prConn' = conn

\* "request.Encode()" and "Encode(v)".
PerformEncode ==
    /\ prPc = "encode"
    /\ \E o \in {"ok", "error"} :
         IF o = "ok"
           THEN prPc' = "dial" /\ UNCHANGED << prErr, prResp, prConn >>
           ELSE prFail("encode", prConn)
    /\ UNCHANGED << reply, prHeader, connVars, serverVars, scalarVars, codecVars >>

\* "c.dialer.DialContext(ctx, c.network, c.address)".
PerformDial ==
    /\ prPc = "dial"
    /\ \E o \in {"ok", "error"} :
         IF o = "ok"
           THEN prPc' = "copy" /\ prConn' = "open" /\ UNCHANGED << prErr, prResp >>
           ELSE prFail("dial", prConn)
    /\ UNCHANGED << reply, prHeader, connVars, serverVars, scalarVars, codecVars >>

\* "io.Copy(conn, bytes.NewBuffer(data))".
PerformCopy ==
    /\ prPc = "copy"
    /\ \E o \in {"ok", "error"} :
         IF o = "ok"
           THEN prPc' = "peek" /\ UNCHANGED << prErr, prResp, prConn >>
           ELSE prFail("io", "closed")
    /\ UNCHANGED << reply, prHeader, connVars, serverVars, scalarVars, codecVars >>

\* "header, err := buf.Peek(3)" and the switch on it.
PerformPeek ==
    /\ prPc = "peek"
    /\ IF Len(reply) < 3
         THEN prFail("io", "closed") /\ UNCHANGED prHeader
         ELSE /\ prHeader' = SubSeq(reply, 1, 3)
              /\ prPc' = classify(SubSeq(reply, 1, 3))
              /\ UNCHANGED << prErr, prResp, prConn >>
    /\ UNCHANGED << reply, connVars, serverVars, scalarVars, codecVars >>

\* "defer conn.Close()" and "managedError.Decode(buf)".
PerformDecodeError ==
    /\ prPc = "decodeError"
    /\ \E o \in {"ok", "error"} :
         prFail(IF o = "ok" THEN "Error" ELSE "decode", "closed")
    /\ UNCHANGED << reply, prHeader, connVars, serverVars, scalarVars, codecVars >>

\* "response.Decode(buf)".
PerformDecodeResponse ==
    /\ prPc = "decodeResponse"
    /\ \E o \in {"ok", "error"} :
         IF o = "ok"
           THEN /\ prPc' = "returned"
                /\ prResp' = TRUE
                /\ UNCHANGED << prErr, prConn >>
           ELSE prFail("decode", "closed")
    /\ UNCHANGED << reply, prHeader, connVars, serverVars, scalarVars, codecVars >>

\* "default: conn.Close(); return nil, nil, ErrCorruptStream".
PerformCorrupt ==
    /\ prPc = "corrupt"
    /\ prFail("ErrCorruptStream", "closed")
    /\ UNCHANGED << reply, prHeader, connVars, serverVars, scalarVars, codecVars >>

InitClient ==
    /\ InitConn
    /\ inClients = FALSE
    /\ waitClients = 0
    /\ InitNewServer
    /\ InitRequest
    /\ InitNoScalar
    /\ InitNoCodec

NextClient ==
    \/ PerformEncode
    \/ PerformDial
    \/ PerformCopy
    \/ PerformPeek
    \/ PerformDecodeError
    \/ PerformDecodeResponse
    \/ PerformCorrupt

SpecClient == InitClient /\ [][NextClient]_vars

\* C17: performRequest, having read the first three bytes of the reply,
\* returns a typed Error (or the failure of its decoding) when they are
\* 79 79 65, the Response with the open connection (or the failure of its
\* decoding) when they are 79 79 52, and ErrCorruptStream for any other three
\* bytes; in the Error and corrupt cases the connection is closed and no
\* Response is returned.
ReplyClassified ==
    (prPc = "returned" /\ Len(prHeader) = 3) =>
        IF prHeader = << 121, 121, 101 >>
          THEN /\ prErr \in {"Error", "decode"}
               /\ prConn = "closed"
               /\ ~prResp
          ELSE IF prHeader = << 121, 121, 82 >>
            THEN \/ prErr = NoError /\ prResp /\ prConn = "open"
                 \/ prErr = "decode" /\ ~prResp /\ prConn = "closed"
            ELSE /\ prErr = "ErrCorruptStream"
                 /\ prConn = "closed"
                 /\ ~prResp

\* An Error frame was decoded and returned as the error, the connection
\* closed.
TypedErrorReturned ==
    /\ prPc = "returned"
    /\ prHeader = << 121, 121, 101 >>
    /\ prErr = "Error"
    /\ prConn = "closed"

\* ---------------------------------------------------------------------
\* encodeInteger, encodeUint, encodeInt and decodeScalar.
\*
\* A uint64 is held in base 128, least significant digit first: NumDigits
\* digits, the last one of TopBits bits.

WordBits == 64
NumDigits == (WordBits + 6) \div 7
TopBits == WordBits - 7 * (NumDigits - 1)

\* The word of a number below 128.
word(n) == [i \in 1..NumDigits |-> IF i = 1 THEN n ELSE 0]

\* "(value << 1) > 0x7": the shift drops bit 63.
shl1gt7(value) ==
    \/ value[1] > 3
    \/ \E i \in 2..(NumDigits - 1) : value[i] # 0
    \/ value[NumDigits] % (2 ^ (TopBits - 1)) # 0

\* "value >>= 7".
shr7(value) ==
    [i \in 1..NumDigits |-> IF i < NumDigits THEN value[i + 1] ELSE 0]

\* "value <<= 7": the bits shifted past bit 63 are dropped.
shl7(value) ==
    [i \in 1..NumDigits |->
        IF i = 1 THEN 0
        ELSE IF i = NumDigits THEN value[i - 1] % (2 ^ TopBits)
        ELSE value[i - 1]]

\* The loop of encodeInteger and the leading byte after it; data holds the
\* bytes written so far, data[pos+1:].
RECURSIVE encodeLoop(_, _)
encodeLoop(value, data) ==
    LET more == IF data # << >> THEN 1 ELSE 0
    IN  IF shl1gt7(value)
          THEN encodeLoop(shr7(value), << ((value[1] * 2) % 256) + more >> \o data)
          ELSE << ((value[1] * 2) % 8) + more >> \o data

encodeInteger(value) == encodeLoop(value, << >>)

\* "data[0] = data[0] | 0x30": the leading byte is below 16.
encodeInt(value) ==
    LET data == encodeInteger(value) IN [data EXCEPT ![1] = @ + 48]

\* "data[0] = data[0] | 0x20".
encodeUint(value) ==
    LET data == encodeInteger(value) IN [data EXCEPT ![1] = @ + 32]

\* The loop of decodeScalar over the bytes left in the reader.
RECURSIVE decodeLoop(_, _, _)
decodeLoop(signed, value, rest) ==
    LET shifted == shl7(value)
    IN  IF rest = << >>
          THEN [signed |-> signed, value |-> shifted, err |-> TRUE, rest |-> rest]
          ELSE LET b == Head(rest)
                   v == [shifted EXCEPT ![1] = b \div 2]
               IN  IF b % 2 # 1
                     THEN [signed |-> signed, value |-> v, err |-> FALSE,
                           rest |-> Tail(rest)]
                     ELSE decodeLoop(signed, v, Tail(rest))

decodeScalar(header, reader) ==
    LET value == word((header % 16) \div 2)
        signed == (header \div 16) % 2 = 1
    IN  IF header % 2 # 1
          THEN [signed |-> signed, value |-> value, err |-> FALSE, rest |-> reader]
          ELSE decodeLoop(signed, value, reader)

\* The integers that are encoded: the low digit up to MaxLow or all ones, the
\* next one and the last full one zero or not, bit 63 set or clear.
LowDigits == 0..MaxLow \cup {127}
Words ==
    {[i \in 1..NumDigits |->
        IF i = 1 THEN d[1]
        ELSE IF i = 2 THEN d[2]
        ELSE IF i = NumDigits - 1 THEN d[3]
        ELSE IF i = NumDigits THEN d[4]
        ELSE 0] : d \in LowDigits \X {0, 1, 127} \X {0, 127} \X {0, 1}}

\* What follows the integer in the stream.
Trailers == {<< >>, << 255 >>}

InitEncode ==
    /\ scV \in Words
    /\ scSigned \in BOOLEAN
    /\ scPc = "encode"
    /\ scBytes = << >>
    /\ scStream = << >>
    /\ scOut = << >>

\* encodeInt or encodeUint, its result put in a stream.
ScalarEncode ==
    /\ scPc = "encode"
    /\ scBytes' = IF scSigned THEN encodeInt(scV) ELSE encodeUint(scV)
    /\ \E t \in Trailers : scStream' = scBytes' \o t
    /\ scPc' = "decode"
    /\ UNCHANGED << scV, scSigned, scOut, requestVars, connVars, serverVars,
                    codecVars >>

\* Decode's read of the header byte and its call of decodeScalar.
ScalarDecode ==
    /\ scPc = "decode"
    /\ scOut' = decodeScalar(Head(scStream), Tail(scStream))
    /\ scPc' = "decoded"
    /\ UNCHANGED << scV, scSigned, scBytes, scStream, requestVars, connVars,
                    serverVars, codecVars >>

InitScalar ==
    /\ InitConn
    /\ inClients = FALSE
    /\ waitClients = 0
    /\ InitNewServer
    /\ InitNoRequest
    /\ InitEncode
    /\ InitNoCodec

NextScalar ==
    \/ ScalarEncode
    \/ ScalarDecode

SpecScalar == InitScalar /\ [][NextScalar]_vars

\* C19: decodeScalar applied to encodeUint(v) returns (unsigned, v) and
\* applied to encodeInt(i) returns (signed, the 64-bit pattern of i), for
\* every 64-bit value, reading exactly the bytes the encoder produced.
ScalarRoundTrip ==
    scPc = "decoded" =>
        /\ ~scOut.err
        /\ scOut.signed = scSigned
        /\ scOut.value = scV
        /\ scStream = scBytes \o scOut.rest

\* The number of significant bits of a number below 128 and of a word.
bitLen(n) == IF n = 0 THEN 0 ELSE CHOOSE k \in 1..7 : 2 ^ (k - 1) <= n /\ n < 2 ^ k
significantBits(value) ==
    IF \A i \in 1..NumDigits : value[i] = 0 THEN 0
    ELSE LET top == CHOOSE i \in 1..NumDigits :
                        value[i] # 0 /\ \A j \in (i + 1)..NumDigits : value[j] = 0
         IN  7 * (top - 1) + bitLen(value[top])

\* 1 + ceil(max(0, n - 3) / 7).
shortestLen(n) == 1 + (IF n > 3 THEN (n - 3 + 6) \div 7 ELSE 0)

\* C20: the encoder emits the shortest bytes the decoder reads back as the
\* value: a value from 0 through 7 takes the leading byte alone, payload in
\* bits 3-1 and continuation bit clear, and a value of n significant bits
\* takes 1 + ceil(max(0, n - 3) / 7) bytes. Stated for the values below 2^63.
ShortestEncoding ==
    (scPc \in {"decode", "decoded"} /\ scV[NumDigits] = 0) =>
        /\ Len(scBytes) = shortestLen(significantBits(scV))
        /\ significantBits(scV) <= 3 =>
              /\ Len(scBytes) = 1
              /\ (scBytes[1] % 16) \div 2 = scV[1]
              /\ scBytes[1] % 2 = 0

\* ---------------------------------------------------------------------
\* Decode and the decoders under it.
\*
\* A reader is the sequence of the bytes it has left. A decoder returns a
\* record with the value (val), the error (err) and the reader after the call
\* (rest); Decode adds the type (t).

Invalid == 0
Void == 1
Scalar == 2
Float == 3
Array == 4
Struct == 5
String == 6
Map == 7
OneOf == 8

sizeLimit == 2000000000

\* The errors of the decoders; ErrOther is an error made by fmt.Errorf or a
\* panic that Decode recovered.
ErrEOF == "io.EOF"
ErrUnexpectedEOF == "io.ErrUnexpectedEOF"
ErrSizeTooLarge == "ErrSizeTooLarge"
ErrInvalidType == "ErrInvalidType"
ErrUnknownStructType == "ErrUnknownStructType"
ErrCorruptStream == "ErrCorruptStream"
ErrOther == "error"
\* A panic, which Encode and Decode recover and return as an error.
ErrPanic == "panic"

\* Go's nil, as a decoded value.
Nil == [k |-> "nil"]
\* The nil pointers (*MapValue)(nil) and (*OneOfValue)(nil) as values.
NilMapValue == [k |-> "MapValue", nil |-> TRUE]
NilOneOfValue == [k |-> "OneOfValue", nil |-> TRUE]

\* The table of detectType, by b>>5.
typeTable ==
    [i \in 0..7 |->
        CASE i = 0 -> Void
          [] i = 1 -> Scalar
          [] i = 2 -> Float
          [] i = 3 -> Array
          [] i = 4 -> Struct
          [] i = 5 -> String
          [] i = 6 -> Map
          [] i = 7 -> OneOf]

detectType(b) ==
    IF (b \div 32) \in DOMAIN typeTable THEN typeTable[b \div 32] ELSE Invalid

\* "size >= sizeLimit", on a word.
tooLarge(size) ==
    \/ \E i \in 6..NumDigits : size[i] # 0
    \/ size[5] >= 8
    \/ size[1] + 128 * size[2] + 16384 * size[3] + 2097152 * size[4]
         + 268435456 * size[5] >= sizeLimit

\* "size == 0", on a word.
isZero(size) == \A i \in 1..NumDigits : size[i] = 0

\* "int64(size)", as far as a limit on a reader of the model tells sizes
\* apart: negative sizes count as 0, sizes of 2^28 and more as 2^28.
limitOf(size) ==
    IF size[NumDigits] # 0 THEN 0
    ELSE IF \E i \in 5..NumDigits : size[i] # 0 THEN 268435456
    ELSE size[1] + 128 * size[2] + 16384 * size[3] + 2097152 * size[4]

\* What io.LimitReader(r, n) can read.
limitReader(r, n) == SubSeq(r, 1, Min(n, Len(r)))

\* r after a limited reader over it went from window to left.
advance(r, window, left) == SubSeq(r, Len(window) - Len(left) + 1, Len(r))

\* io.ReadFull of n bytes.
readFull(r, n) ==
    IF Len(r) >= n
      THEN [data |-> SubSeq(r, 1, n), err |-> NoError, rest |-> SubSeq(r, n + 1, Len(r))]
      ELSE [data |-> r, err |-> IF r = << >> THEN ErrEOF ELSE ErrUnexpectedEOF,
            rest |-> << >>]

fail(e, r) == [val |-> Nil, err |-> e, rest |-> r]

RECURSIVE Decode(_)
RECURSIVE decodeStructToConcrete(_, _)

\* F of the value v, which is computed once.
Once(v, F(_)) == F(v)

decodeFloat(header, reader) ==
    LET bits == IF (header \div 16) % 2 = 1 THEN 64 ELSE 32
    IN  IF (header \div 8) % 2 = 1
          THEN [val |-> [k |-> "float", bits |-> bits, raw |-> << >>],
                err |-> NoError, rest |-> reader]
          ELSE LET rf == readFull(reader, bits \div 8)
               IN  IF rf.err # NoError THEN fail(rf.err, rf.rest)
                   ELSE [val |-> [k |-> "float", bits |-> bits, raw |-> rf.data],
                         err |-> NoError, rest |-> rf.rest]

\* The loop of decodeArray and of decodeStruct over the limited reader: the
\* values and their types, until Decode returns an error.
RECURSIVE decodeAll(_, _, _)
decodeAll(reader, values, types) ==
    LET d == Decode(reader)
    IN  IF d.err # NoError
          THEN [values |-> values, types |-> types, err |-> d.err, rest |-> d.rest]
          ELSE decodeAll(d.rest, Append(values, d.val), Append(types, d.t))

decodeArray(header, r) ==
    LET sc == decodeScalar(header, r)
    IN  IF sc.err THEN fail(ErrEOF, sc.rest)
        ELSE IF isZero(sc.value)
          THEN [val |-> [k |-> "array", elems |-> << >>], err |-> NoError,
                rest |-> sc.rest]
        ELSE IF tooLarge(sc.value) THEN fail(ErrSizeTooLarge, sc.rest)
        ELSE LET window == limitReader(sc.rest, limitOf(sc.value))
                 all == decodeAll(window, << >>, << >>)
                 left == advance(sc.rest, window, all.rest)
                 data == [i \in 1..Len(all.values) |->
                            IF all.types[i] = Struct THEN all.values[i].v
                            ELSE all.values[i]]
             IN  IF all.err = ErrEOF
                   THEN [val |-> [k |-> "array", elems |-> data],
                         err |-> NoError, rest |-> left]
                   ELSE fail(all.err, left)

decodeString(header, r) ==
    LET sc == decodeScalar(header, r)
    IN  IF sc.err THEN [val |-> [k |-> "string", s |-> << >>], err |-> NoError,
                        rest |-> sc.rest]
        ELSE IF tooLarge(sc.value)
          THEN [val |-> [k |-> "string", s |-> << >>], err |-> ErrSizeTooLarge,
                rest |-> sc.rest]
        ELSE LET window == limitReader(sc.rest, limitOf(sc.value))
             IN  [val |-> [k |-> "string", s |-> window], err |-> NoError,
                  rest |-> advance(sc.rest, window, << >>)]

\* The loop of decodeMap over the keys or over the values: values of one
\* type (keyType, Invalid before the first) until Decode returns an error.
RECURSIVE decodeSame(_, _, _)
decodeSame(reader, values, keyType) ==
    Once(Decode(reader), LAMBDA d :
      IF d.err # NoError
        THEN [values |-> values, err |-> d.err, rest |-> d.rest]
      ELSE IF keyType # Invalid /\ keyType # d.t
        THEN [values |-> values, err |-> ErrOther, rest |-> d.rest]
      ELSE decodeSame(d.rest, Append(values, d.val), d.t))

\* One block of decodeMap, the keys or the values: the length, read from r,
\* then the loop over a reader limited to it.
decodeBlock(header, r) ==
    Once(decodeScalar(header, r), LAMBDA sc :
      IF sc.err THEN [values |-> << >>, err |-> ErrEOF, rest |-> sc.rest]
      ELSE Once(limitReader(sc.rest, limitOf(sc.value)), LAMBDA window :
             Once(decodeSame(window, << >>, Invalid), LAMBDA all :
               IF all.err # ErrEOF
                 THEN [values |-> << >>, err |-> all.err,
                       rest |-> advance(sc.rest, window, all.rest)]
                 ELSE [values |-> all.values, err |-> NoError,
                       rest |-> advance(sc.rest, window, all.rest)])))

\* The two blocks of decodeMap, keys and values, with n bytes left in the
\* limited reader after the header byte of the keys.
decodeBlocks(n, r) ==
    Once(decodeBlock(Head(r), Tail(r)), LAMBDA keys :
      IF keys.err # NoError THEN fail(keys.err, keys.rest)
      ELSE IF n <= 0 \/ keys.rest = << >> THEN fail(ErrEOF, keys.rest)
      ELSE Once(decodeBlock(Head(keys.rest), Tail(keys.rest)), LAMBDA vals :
             IF vals.err # NoError THEN fail(vals.err, vals.rest)
             ELSE IF Len(keys.values) # Len(vals.values)
               THEN fail(ErrOther, vals.rest)
             ELSE [val |-> [k |-> "MapValue", nil |-> FALSE,
                            keys |-> keys.values, values |-> vals.values],
                   err |-> NoError, rest |-> vals.rest]))

\* reader is limited to size bytes, but only the two header bytes of the
\* blocks are read through it: what it has left is n, the rest is read from r.
decodeMap(header, r) ==
    Once(decodeScalar(header, r), LAMBDA sc :
      IF sc.err THEN fail(ErrEOF, sc.rest)
      ELSE IF isZero(sc.value)
        THEN [val |-> NilMapValue, err |-> NoError, rest |-> sc.rest]
      ELSE IF tooLarge(sc.value) THEN fail(ErrSizeTooLarge, sc.rest)
      ELSE IF sc.rest = << >> THEN fail(ErrEOF, sc.rest)
      ELSE decodeBlocks(limitOf(sc.value) - 1, sc.rest))

decodeOneOf(header, r) ==
    LET sc == decodeScalar(header, r)
    IN  IF sc.err THEN fail(ErrEOF, sc.rest)
        ELSE IF isZero(sc.value)
          THEN [val |-> NilOneOfValue, err |-> NoError, rest |-> sc.rest]
        ELSE IF tooLarge(sc.value) THEN fail(ErrSizeTooLarge, sc.rest)
        ELSE LET window == limitReader(sc.rest, limitOf(sc.value))
                 h == readFull(window, 1)
             IN  IF h.err # NoError THEN fail(h.err, advance(sc.rest, window, h.rest))
                 ELSE LET idx == decodeScalar(h.data[1], h.rest)
                      IN  IF idx.err THEN fail(ErrEOF, advance(sc.rest, window, idx.rest))
                          ELSE LET d == Decode(idx.rest)
                                   left == advance(sc.rest, window, d.rest)
                               IN  IF d.err # NoError THEN fail(d.err, left)
                                   ELSE [val |-> [k |-> "OneOfValue", nil |-> FALSE,
                                                  index |-> idx.value,
                                                  data |-> d.val],
                                         err |-> NoError, rest |-> left]

\* decodeStruct: the identifier and the values of the fields with their types.
decodeStruct(header, r) ==
    LET sc == decodeScalar(header, r)
    IN  IF sc.err THEN fail(ErrEOF, sc.rest)
        ELSE IF tooLarge(sc.value) THEN fail(ErrSizeTooLarge, sc.rest)
        ELSE LET window == limitReader(sc.rest, limitOf(sc.value))
                 id == readFull(window, 8)
             IN  IF id.err # NoError THEN fail(id.err, advance(sc.rest, window, id.rest))
                 ELSE LET all == decodeAll(id.rest, << >>, << >>)
                          left == advance(sc.rest, window, all.rest)
                      IN  IF all.err # ErrEOF THEN fail(all.err, left)
                          ELSE [val |-> [id |-> id.data, values |-> all.values,
                                         types |-> all.types],
                                err |-> NoError, rest |-> left]

\* Decode: the type, the value, the error and the reader after the call.
Decode(r) ==
    IF r = << >> THEN [t |-> Invalid, val |-> Nil, err |-> ErrEOF, rest |-> r]
    ELSE LET header == Head(r)
             rd == Tail(r)
             t == detectType(header)
             typed(d) == [t |-> t, val |-> d.val, err |-> d.err, rest |-> d.rest]
         IN  CASE t = Void -> [t |-> Void, val |-> Nil, err |-> NoError, rest |-> rd]
               [] t = Scalar ->
                    LET sc == decodeScalar(header, rd)
                    IN  IF sc.err
                          THEN [t |-> Scalar, val |-> Nil, err |-> ErrEOF, rest |-> sc.rest]
                          ELSE [t |-> Scalar,
                                val |-> [k |-> IF sc.signed THEN "int64" ELSE "uint64",
                                         n |-> sc.value],
                                err |-> NoError, rest |-> sc.rest]
               [] t = Float ->
                    LET f == decodeFloat(header, rd)
                    IN  IF f.err # NoError
                          THEN [t |-> Float, val |-> Nil, err |-> f.err, rest |-> f.rest]
                          ELSE typed(f)
               [] t = Array -> typed(decodeArray(header, rd))
               [] t = String -> typed(decodeString(header, rd))
               [] t = Struct ->
                    Once(decodeStructToConcrete(header, rd), LAMBDA str :
                      IF str.err = ErrPanic
                        THEN [t |-> Invalid, val |-> Nil, err |-> str.err,
                              rest |-> str.rest]
                        ELSE [t |-> Struct, val |-> str.val, err |-> str.err,
                              rest |-> str.rest])
               [] t = Map -> typed(decodeMap(header, rd))
               [] t = OneOf -> typed(decodeOneOf(header, rd))
               [] OTHER -> [t |-> Invalid, val |-> Nil, err |-> ErrInvalidType,
                            rest |-> rd]

\* The bytes of the streams: Void, a byte with top nibble 1, the scalars 0 and
\* 1, a scalar and a string size that go on in the next byte, and an array,
\* a string, a map and a OneOf with their size in the header.
StreamBytes == {0, 16, 32, 33, 34, 98, 100, 161, 164, 200, 228}

Streams(maxLen) == UNION {[1..n -> StreamBytes] : n \in 0..maxLen}

InitDecode ==
    /\ cdIn \in Streams(MaxStream)
    /\ cdPc = "decode"
    /\ cdBytes = << >>
    /\ cdOut = << >>

\* Decode(bytes.NewReader(stream)).
DecodeStream ==
    /\ cdPc = "decode"
    /\ cdOut' = Decode(cdIn)
    /\ cdPc' = "decoded"
    /\ UNCHANGED << cdIn, cdBytes, requestVars, scalarVars, connVars, serverVars >>

InitDecoder ==
    /\ InitConn
    /\ inClients = FALSE
    /\ waitClients = 0
    /\ InitNewServer
    /\ InitNoRequest
    /\ InitNoScalar
    /\ InitDecode

NextDecode == DecodeStream

SpecDecode == InitDecoder /\ [][NextDecode]_vars

\* Every byte of s has its continuation bit set.
Unterminated(s) == s # << >> /\ \A i \in 1..Len(s) : s[i] % 2 = 1

\* C21: when the input ends while a varint's continuation bit is still set,
\* decoding fails: for a top-level scalar, for the size of a string, and for
\* a scalar cut short as the last element of an array.
TruncatedVarintFails ==
    (cdPc = "decoded" /\ cdIn # << >>) =>
        /\ (detectType(cdIn[1]) \in {Scalar, String} /\ Unterminated(cdIn))
              => cdOut.err # NoError
        /\ (/\ detectType(cdIn[1]) = Array
            /\ cdIn[1] % 2 = 0
            /\ Len(cdIn) >= 2
            /\ detectType(cdIn[Len(cdIn)]) = Scalar
            /\ cdIn[Len(cdIn)] % 2 = 1)
              => cdOut.err # NoError

\* The size a header byte declares when its continuation bit is clear.
declared(header) == (header % 16) \div 2

\* C22: a successful decode of a size-prefixed value (string, array, map,
\* OneOf) has read exactly the bytes its size prefix declares, so that a
\* stream with fewer bytes, or a body that does not end at the declared size,
\* gives an error.
SizeExact ==
    (/\ cdPc = "decoded"
     /\ cdIn # << >>
     /\ detectType(cdIn[1]) \in {String, Array, Map, OneOf, Struct}
     /\ cdIn[1] % 2 = 0
     /\ cdOut.err = NoError)
        => Len(cdIn) - Len(cdOut.rest) = 1 + declared(cdIn[1])

\* The top nibbles of the table of type tags.
ListedNibbles == {0, 2, 3, 4, 5, 6, 8, 10, 12, 14}

\* C23: a stream whose first byte has a top nibble that the table of type
\* tags does not list is classified as Invalid, and Decode returns
\* ErrInvalidType for it and no value.
UnlistedTagInvalid ==
    (cdPc = "decoded" /\ cdIn # << >> /\ (cdIn[1] \div 16) \notin ListedNibbles) =>
        /\ detectType(cdIn[1]) = Invalid
        /\ cdOut.t = Invalid
        /\ cdOut.err = ErrInvalidType
        /\ cdOut.val = Nil

\* ---------------------------------------------------------------------
\* Struct declarations and validateAndExtractStruct.
\*
\* A type is a record with its kind k (and elem, key, name); a struct type
\* carries its declaration. A field has a name, a type and the components of
\* its index tag, split at the commas (no component: no index tag).

ErrIncompatibleStruct == "ErrIncompatibleStruct"
ErrIncompleteStruct == "ErrIncompleteStruct"
ErrInvalidTag == "ErrInvalidTag"
ErrDuplicatedFieldIndex == "ErrDuplicatedFieldIndex"
ErrMinFieldNotZero == "ErrMinFieldNotZero"
ErrFieldGap == "ErrFieldGap"

\* The components of a tag: a number, something else, or nothing.
num(n) == [s |-> "num", n |-> n]
nan == [s |-> "nan", n |-> 0]
empty == [s |-> "empty", n |-> 0]

\* strconv.Atoi.
Atoi(c) == [ok |-> c.s = "num", n |-> c.n]

minFieldStart == 10000

stop(acc, e) == [acc EXCEPT !.err = e]

\* The loop of validateAndExtractStruct over the fields i, i+1, ... of the
\* declaration; acc holds fields, minField, maxField and the error.
RECURSIVE scanFields(_, _, _)
scanFields(decls, i, acc) ==
    IF acc.err # NoError \/ i > Len(decls) THEN acc
    ELSE
      LET f == decls[i]
          comma == Len(f.tag) >= 2
          tag == f.tag[1]
          oneOfIndex == IF comma THEN f.tag[2] ELSE empty
          a == Atoi(tag)
          ok == a.n \in DOMAIN acc.fields
          oo == Atoi(oneOfIndex)
          moved == [acc EXCEPT !.minField = IF a.n < @ THEN a.n ELSE @,
                               !.maxField = IF a.n > @ THEN a.n ELSE @]
      IN  IF f.tag = << >> THEN scanFields(decls, i + 1, acc)
          ELSE IF comma /\ f.type.k # "ptr" THEN stop(acc, ErrOther)
          ELSE IF ~a.ok THEN stop(acc, ErrInvalidTag)
          ELSE IF ok /\ (oneOfIndex.s = "empty" \/ ~acc.fields[a.n].OneOf)
            THEN stop(acc, ErrDuplicatedFieldIndex)
          ELSE IF ok
            THEN IF ~oo.ok THEN stop(acc, ErrInvalidTag)
                 ELSE scanFields(decls, i + 1,
                        [moved EXCEPT !.fields[a.n].OneOfIndexes = (oo.n :> f) @@ @])
          ELSE IF oneOfIndex.s # "empty" /\ ~oo.ok THEN stop(acc, ErrInvalidTag)
          ELSE scanFields(decls, i + 1,
                 [moved EXCEPT !.fields =
                    (a.n :> [Index |-> a.n,
                             OneOf |-> oneOfIndex.s # "empty",
                             Field |-> f,
                             OneOfIndexes |-> IF oneOfIndex.s # "empty"
                                                THEN (oo.n :> f) ELSE << >>])
                    @@ @])

\* The fields of the struct type t in the order of their index, or the error.
validateAndExtractStruct(t) ==
    IF ~t.valuer THEN [fields |-> << >>, err |-> ErrIncompatibleStruct]
    ELSE IF ~t.structure THEN [fields |-> << >>, err |-> ErrIncompleteStruct]
    ELSE
      LET acc == scanFields(t.fields, 1,
                   [fields |-> << >>, minField |-> minFieldStart, maxField |-> -1,
                    err |-> NoError])
      IN  IF acc.err # NoError THEN [fields |-> << >>, err |-> acc.err]
          ELSE IF acc.minField # 0 THEN [fields |-> << >>, err |-> ErrMinFieldNotZero]
          ELSE IF \E i \in 0..acc.maxField : i \notin DOMAIN acc.fields
            THEN [fields |-> << >>, err |-> ErrFieldGap]
          ELSE [fields |-> [i \in 1..(acc.maxField + 1) |-> acc.fields[i - 1]],
                err |-> NoError]

\* The types of the model.
stringType == [k |-> "string"]
ptrTo(t) == [k |-> "ptr", elem |-> t]

\* The index tags of the declarations that are validated: none, one index
\* that is a number or not, and a OneOf member of group 0 or 1.
PlanTags ==
    {<< >>, << nan >>}
      \cup {<< num(n) >> : n \in {-1, 0, 1, 2}}
      \cup {<< num(n), c >> : n \in {0, 1}, c \in {num(0), num(1), nan}}

\* A struct type with the tags tags on its fields: a OneOf member is a pointer.
planType(tags) ==
    [k |-> "struct", name |-> "T", valuer |-> TRUE, structure |-> TRUE,
     fields |-> [i \in 1..Len(tags) |->
                   [name |-> i,
                    type |-> IF Len(tags[i]) >= 2 THEN ptrTo(stringType) ELSE stringType,
                    tag |-> tags[i]]]]

Plans(maxFields) == UNION {[1..n -> PlanTags] : n \in 0..maxFields}

InitPlan ==
    /\ cdIn \in {planType(tags) : tags \in Plans(MaxFields)}
    /\ cdPc = "validate"
    /\ cdBytes = << >>
    /\ cdOut = << >>

ValidatePlan ==
    /\ cdPc = "validate"
    /\ cdOut' = validateAndExtractStruct(cdIn)
    /\ cdPc' = "validated"
    /\ UNCHANGED << cdIn, cdBytes, requestVars, scalarVars, connVars, serverVars >>

InitValidator ==
    /\ InitConn
    /\ inClients = FALSE
    /\ waitClients = 0
    /\ InitNewServer
    /\ InitNoRequest
    /\ InitNoScalar
    /\ InitPlan

NextPlan == ValidatePlan

SpecPlan == InitValidator /\ [][NextPlan]_vars

\* What the rules say of a declaration: the fields with an index tag, whether
\* every component is a number, the outer indices, and whether no index is
\* shared but by the members of one OneOf group with distinct inner indices.
Tagged(t) == {i \in 1..Len(t.fields) : t.fields[i].tag # << >>}
Numeric(t) ==
    \A i \in Tagged(t) : \A j \in 1..Len(t.fields[i].tag) : t.fields[i].tag[j].s = "num"
Outer(t) == {t.fields[i].tag[1].n : i \in {j \in Tagged(t) : t.fields[j].tag[1].s = "num"}}
ShareOk(t) ==
    \A i, j \in Tagged(t) :
        (i # j /\ t.fields[i].tag[1] = t.fields[j].tag[1]) =>
            /\ Len(t.fields[i].tag) = 2
            /\ Len(t.fields[j].tag) = 2
            /\ t.fields[i].tag[2] # t.fields[j].tag[2]
WellFormed(t) ==
    /\ Numeric(t)
    /\ Outer(t) # {}
    /\ Outer(t) = 0..(Cardinality(Outer(t)) - 1)
    /\ ShareOk(t)

\* The errors the rules allow for a declaration.
Applicable(t) ==
    (IF Numeric(t) THEN {} ELSE {ErrInvalidTag})
      \cup (IF 0 \in Outer(t) /\ \A n \in Outer(t) : n >= 0 THEN {} ELSE {ErrMinFieldNotZero})
      \cup (IF \E n \in Outer(t) : \E m \in 0..n : m \notin Outer(t)
              THEN {ErrFieldGap} ELSE {})
      \cup (IF ShareOk(t) THEN {} ELSE {ErrDuplicatedFieldIndex})

\* C27: validateAndExtractStruct accepts a declaration exactly when its outer
\* indices are 0..n and no index is shared but by the members of one OneOf
\* group with distinct inner indices; otherwise it returns MinFieldNotZero,
\* FieldGap, DuplicatedFieldIndex or InvalidTag, one whose condition holds;
\* an accepted plan lists the fields in ascending order of index.
PlanValidated ==
    cdPc = "validated" =>
        /\ cdOut.err = NoError <=> WellFormed(cdIn)
        /\ cdOut.err # NoError => cdOut.err \in Applicable(cdIn)
        /\ cdOut.err = NoError =>
              \A i \in 1..Len(cdOut.fields) : cdOut.fields[i].Index = i - 1

\* ---------------------------------------------------------------------
\* Server.RegisterHandler and the call of the handler in apply.
\*
\* A handler is a record: whether it is a function, and the types of its
\* parameters (in) and of its results (out). The types that matter are
\* context.Context, Header, a pointer to a streamer, and any other one, which
\* stands for the request type among the parameters and for the response
\* type among the results; error is a type of results only.

ParamTypes == {"Context", "Header", "Request", "Streamer"}
ResultTypes == {"Header", "Response", "error"}
NoType == "nil"

HandlerFuncs(maxArgs) ==
    {[func |-> TRUE, in |-> i, out |-> o] :
        i \in UNION {[1..n -> ParamTypes] : n \in 1..maxArgs},
        o \in UNION {[1..n -> ResultTypes] : n \in 0..(maxArgs - 1)}}
      \cup {[func |-> FALSE, in |-> << >>, out |-> << >>]}

isStreamer(t) == t = "Streamer"

\* RegisterHandler: the panic, or the handlerFunction stored in s.handlers.
RegisterHandler(h) ==
    LET numIn == Len(h.in)
        numOut == Len(h.out)
        rejected == [panicked |-> TRUE, stored |-> FALSE, usesStreamer |-> FALSE,
                     streamerType |-> NoType, inType |-> NoType, outType |-> NoType]
        usesStreamer == numOut = 1 /\ isStreamer(h.in[numIn])
    IN  IF ~h.func THEN rejected
        ELSE IF numIn < 2 \/ numIn > 4 \/ numOut = 0 \/ numOut > 3 THEN rejected
        ELSE IF usesStreamer
          THEN [panicked |-> FALSE, stored |-> TRUE, usesStreamer |-> TRUE,
                streamerType |-> h.in[numIn],
                inType |-> IF h.in[numIn - 1] # "Header" THEN h.in[numIn - 1] ELSE NoType,
                outType |-> NoType]
          ELSE [panicked |-> FALSE, stored |-> TRUE, usesStreamer |-> FALSE,
                streamerType |-> NoType,
                inType |-> IF h.in[numIn] # "Header" THEN h.in[numIn] ELSE NoType,
                outType |-> IF numOut = 3 THEN h.out[2] ELSE NoType]

\* apply: whether the call of the handler h bound as b, or the use of its
\* results, panics because of the types of h. The handler returns nil values.
applyPanics(h, b) ==
    LET applyParams == << "Context", "Header" >>
                         \o (IF b.inType # NoType THEN << b.inType >> ELSE << >>)
                         \o (IF b.usesStreamer THEN << b.streamerType >> ELSE << >>)
    IN  \/ applyParams # h.in
        \/ /\ ~b.usesStreamer
           /\ \/ Len(h.out) < 2
              \/ h.out[Len(h.out) - 1] # "Header"

InitHandler ==
    /\ cdIn \in HandlerFuncs(MaxArgs)
    /\ cdPc = "register"
    /\ cdBytes = << >>
    /\ cdOut = << >>

Register ==
    /\ cdPc = "register"
    /\ cdOut' = RegisterHandler(cdIn)
    /\ cdPc' = "registered"
    /\ UNCHANGED << cdIn, cdBytes, requestVars, scalarVars, connVars, serverVars >>

\* A request for the handler is served.
Dispatch ==
    /\ cdPc = "registered"
    /\ cdOut.stored
    /\ cdBytes' = << applyPanics(cdIn, cdOut) >>
    /\ cdPc' = "dispatched"
    /\ UNCHANGED << cdIn, cdOut, requestVars, scalarVars, connVars, serverVars >>

InitRegister ==
    /\ InitConn
    /\ inClients = FALSE
    /\ waitClients = 0
    /\ InitNewServer
    /\ InitNoRequest
    /\ InitNoScalar
    /\ InitHandler

NextRegister ==
    \/ Register
    \/ Dispatch

SpecRegister == InitRegister /\ [][NextRegister]_vars

\* The four shapes: (Context, Header[, Request]) -> (Header[, Response],
\* error) and (Context, Header[, Request], Streamer) -> error.
DocumentedShape(h) ==
    /\ h.func
    /\ Len(h.in) >= 2
    /\ h.in[1] = "Context"
    /\ h.in[2] = "Header"
    /\ \/ /\ h.in \in {<< "Context", "Header" >>, << "Context", "Header", "Request" >>}
          /\ h.out \in {<< "Header", "error" >>, << "Header", "Response", "error" >>}
       \/ /\ h.in \in {<< "Context", "Header", "Streamer" >>,
                       << "Context", "Header", "Request", "Streamer" >>}
          /\ h.out = << "error" >>

\* C28: RegisterHandler stores a binding only for a handler of one of the four
\* shapes, with usesStreamer, streamerType, inType and outType as the shape
\* says; a handler of any other shape panics at registration and is not
\* stored, so that no call of a stored handler fails on its shape.
HandlerShapeChecked ==
    /\ cdPc \in {"registered", "dispatched"} =>
          /\ cdOut.stored <=> DocumentedShape(cdIn)
          /\ ~DocumentedShape(cdIn) => cdOut.panicked
          /\ cdOut.stored =>
                /\ cdOut.usesStreamer = ("Streamer" \in {cdIn.in[i] : i \in 1..Len(cdIn.in)})
                /\ cdOut.streamerType = (IF cdOut.usesStreamer THEN "Streamer" ELSE NoType)
                /\ cdOut.inType = (IF Len(cdIn.in) >= 3 /\ cdIn.in[3] = "Request"
                                     THEN "Request" ELSE NoType)
                /\ cdOut.outType = (IF Len(cdIn.out) = 3 THEN "Response" ELSE NoType)
    /\ cdPc = "dispatched" => cdBytes = << FALSE >>

\* ---------------------------------------------------------------------
\* Values of Go types and encode.
\*
\* A value is a record with its kind k: an integer holds its word n, a bool
\* b, a string its bytes s, a pointer its element type elem and what it
\* points to (v) unless nil, a slice its element type and elems, a map its
\* key and element types and the function m from keys to values, a struct
\* its type t and the values f of its fields by name. A nil slice and an
\* empty one are one value, and so are a nil map and an empty one. The name
\* of a field is the sequence of its parts, so that "Has" + name is a
\* concatenation. Floats are decoded but are not among the values encoded.

intType == [k |-> "int"]
int64Type == [k |-> "int64"]
uint64Type == [k |-> "uint64"]
boolType == [k |-> "bool"]
interfaceType == [k |-> "interface"]
sliceOf(t) == [k |-> "slice", elem |-> t]
mapOf(kt, vt) == [k |-> "map", key |-> kt, elem |-> vt]

intValue(t, n) == [k |-> t.k, n |-> n]
boolValue(b) == [k |-> "bool", b |-> b]
stringValue(s) == [k |-> "string", s |-> s]
pointer(t, v) == [k |-> "ptr", elem |-> t, nil |-> FALSE, v |-> v]
nilPointer(t) == [k |-> "ptr", elem |-> t, nil |-> TRUE, v |-> Nil]
sliceValue(t, elems) == [k |-> "slice", elem |-> t, elems |-> elems]
goMap(kt, vt, m) == [k |-> "map", key |-> kt, elem |-> vt, m |-> m]
instance(t, f) == [k |-> "struct", t |-> t, f |-> f, unknown |-> << >>]

\* reflect.TypeOf of a value that is not the nil interface.
typeOf(v) ==
    CASE v.k \in {"int", "int64", "uint64", "bool", "string"} -> [k |-> v.k]
      [] v.k = "float" -> [k |-> "float", bits |-> v.bits]
      [] v.k = "ptr" -> ptrTo(v.elem)
      [] v.k = "slice" -> sliceOf(v.elem)
      [] v.k = "array" -> sliceOf(interfaceType)
      [] v.k = "map" -> mapOf(v.key, v.elem)
      [] v.k = "struct" -> v.t
      [] v.k \in {"MapValue", "OneOfValue"} -> ptrTo([k |-> v.k])

\* "uint64(len(buf))", for the lengths below 128^3.
sizeOf(n) ==
    [i \in 1..NumDigits |->
        CASE i = 1 -> n % 128
          [] i = 2 -> (n \div 128) % 128
          [] i = 3 -> (n \div 16384) % 128
          [] OTHER -> 0]

\* "header[0] |= bits": the leading byte of encodeInteger is below 16.
withTag(header, bits) == [header EXCEPT ![1] = @ + bits]

encoded(b) == [b |-> b, err |-> NoError]
failedWith(e) == [b |-> << >>, err |-> e]

encodeString(str) == withTag(encodeInteger(sizeOf(Len(str))), 160) \o str

encodeBool(value) == IF value THEN << 48 >> ELSE << 32 >>

\* The Void byte.
encodeVoid == << 0 >>

validMapKeyType(k) == k \in {"string", "int", "int64", "uint64"}

canEncodeStruct(t) == t.valuer /\ t.structure

RECURSIVE canEncode(_)
canEncode(t) ==
    \/ validMapKeyType(t.k)
    \/ t.k \in {"float", "bool"}
    \/ t.k \in {"slice", "ptr"} /\ canEncode(t.elem)
    \/ t.k = "map" /\ validMapKeyType(t.key.k) /\ canEncode(t.elem)
    \/ t.k = "struct" /\ canEncodeStruct(t)

\* The eight bytes of an identifier below 256, little endian.
idBytes(id) == << id, 0, 0, 0, 0, 0, 0, 0 >>

\* "value == 0": the bits of 0 and of -0.
isZeroFloat(v) ==
    \A i \in 1..Len(v.raw) : v.raw[i] = (IF i = Len(v.raw) /\ v.raw[i] >= 128 THEN 128 ELSE 0)

\* encodeFloat32 and encodeFloat64: the header alone for a zero, with bit 3
\* set, and the header and the bits, little endian, for another value.
encodeFloat32(value) == IF isZeroFloat(value) THEN << 72 >> ELSE << 64 >> \o value.raw
encodeFloat64(value) == IF isZeroFloat(value) THEN << 88 >> ELSE << 80 >> \o value.raw

\* encode(v) where the maps are ranged over in the order ord of their keys.
RECURSIVE encode(_, _)

\* The encodings of the values vals one after the other, or the first error.
RECURSIVE encodeEach(_, _, _)
encodeEach(vals, buf, ord) ==
    IF vals = << >> THEN encoded(buf)
    ELSE Once(encode(Head(vals), ord), LAMBDA b :
           IF b.err # NoError THEN b
           ELSE encodeEach(Tail(vals), buf \o b.b, ord))

encodeArray(val, ord) ==
    IF val.k # "slice" THEN failedWith(ErrOther)
    ELSE IF Len(val.elems) = 0 THEN encoded(<< 96 >>)
    ELSE Once(encodeEach(val.elems, << >>, ord), LAMBDA buf :
           IF buf.err # NoError THEN buf
           ELSE encoded(withTag(encodeInteger(sizeOf(Len(buf.b))), 96) \o buf.b))

\* The keys of the map m in the order of MapRange.
ranged(m, ord) == SelectSeq(ord, LAMBDA key : key \in DOMAIN m)

\* The head of a map with entries and its two blocks, each after its length.
mapBody(ks, vs) ==
    encoded(withTag(encodeInteger(sizeOf(Len(ks) + Len(vs))), 192) \o ks \o vs)

encodeMap(val, ord) ==
    IF val.k # "map" THEN failedWith(ErrOther)
    ELSE IF ~validMapKeyType(val.key.k) THEN failedWith(ErrOther)
    ELSE IF ~canEncode(val.elem) THEN failedWith(ErrOther)
    ELSE Once(ranged(val.m, ord), LAMBDA iter :
      Once(encodeEach(iter, << >>, ord), LAMBDA keys :
        IF keys.err # NoError THEN keys
        ELSE Once(encodeEach([i \in 1..Len(iter) |-> val.m[iter[i]]], << >>, ord),
                  LAMBDA values :
               IF values.err # NoError THEN values
               ELSE IF Len(iter) = 0 THEN encoded(withTag(encodeInteger(sizeOf(0)), 192))
               ELSE mapBody(encodeUint(sizeOf(Len(keys.b))) \o keys.b,
                            encodeUint(sizeOf(Len(values.b))) \o values.b))))

\* encodeOneOf of the OneOfValue with Index index and Data data: the type of
\* a nil Data is the nil Type, on which canEncode panics.
encodeOneOf(index, data, ord) ==
    IF data = Nil THEN failedWith(ErrPanic)
    ELSE IF ~canEncode(typeOf(data)) THEN failedWith(ErrOther)
    ELSE LET v == encode(data, ord)
         IN  IF v.err # NoError THEN v
             ELSE LET body == encodeUint(sizeOf(index)) \o v.b
                  IN  encoded(withTag(encodeInteger(sizeOf(Len(body))), 224) \o body)

\* The loop of encodeStruct over the fields: a OneOf group is encoded as the
\* member that is not nil (the instances set one at most), with Index -1 and
\* no Data when all are nil.
RECURSIVE encodeFields(_, _, _, _)
encodeFields(v, fields, body, ord) ==
    IF fields = << >> THEN encoded(body)
    ELSE LET f == Head(fields)
             present == {n \in DOMAIN f.OneOfIndexes : ~v.f[f.OneOfIndexes[n].name].nil}
             b == IF f.OneOf
                    THEN IF present = {} THEN encodeOneOf(-1, Nil, ord)
                         ELSE LET n == CHOOSE n \in present : TRUE
                              IN  encodeOneOf(n, v.f[f.OneOfIndexes[n].name], ord)
                    ELSE encode(v.f[f.Field.name], ord)
         IN  IF b.err # NoError THEN b
             ELSE encodeFields(v, Tail(fields), body \o b.b, ord)

encodeStruct(v, ord) ==
    LET fields == validateAndExtractStruct(v.t)
    IN  IF fields.err # NoError THEN failedWith(fields.err)
        ELSE LET body == encodeFields(v, fields.fields, << >>, ord)
             IN  IF body.err # NoError THEN body
                 ELSE encoded(withTag(encodeInteger(sizeOf(Len(body.b) + 8)), 128)
                                \o idBytes(v.t.id) \o body.b)

encode(v, ord) ==
    CASE v.k = "slice" -> encodeArray(v, ord)
      [] v.k = "string" -> encoded(encodeString(v.s))
      [] v.k = "uint64" -> encoded(encodeUint(v.n))
      [] v.k \in {"int", "int64"} -> encoded(encodeInt(v.n))
      [] v.k = "bool" -> encoded(encodeBool(v.b))
      [] v.k = "float" /\ v.bits = 32 -> encoded(encodeFloat32(v))
      [] v.k = "float" /\ v.bits = 64 -> encoded(encodeFloat64(v))
      [] v.k = "ptr" -> IF v.nil THEN encoded(encodeVoid) ELSE encode(v.v, ord)
      [] v.k = "struct" -> encodeStruct(v, ord)
      [] v.k = "map" -> encodeMap(v, ord)
      [] OTHER -> failedWith(ErrOther)

\* ---------------------------------------------------------------------
\* The registry and decodeStructToConcrete.

numeric(t) == t.k \in {"int", "int64", "uint64"}

\* Type.ConvertibleTo, for the types of the model: an integer converts to any
\* integer type and to string, and a type to itself.
ConvertibleTo(from, to) ==
    \/ numeric(from) /\ (numeric(to) \/ to.k = "string")
    \/ from = to

\* Type.AssignableTo.
AssignableTo(from, to) == from = to

\* "string(rune(n))": the UTF-8 bytes of the code point, U+FFFD if n is none.
runeString(n) ==
    LET c == n[1] + 128 * n[2] + 16384 * n[3]
        bad == << 239, 191, 189 >>
    IN  IF \E i \in 4..NumDigits : n[i] # 0 THEN bad
        ELSE IF c < 128 THEN << c >>
        ELSE IF c < 2048 THEN << 192 + (c \div 64), 128 + (c % 64) >>
        ELSE IF c >= 55296 /\ c <= 57343 THEN bad
        ELSE IF c < 65536
          THEN << 224 + (c \div 4096), 128 + ((c \div 64) % 64), 128 + (c % 64) >>
        ELSE IF c <= 1114111
          THEN << 240 + (c \div 262144), 128 + ((c \div 4096) % 64),
                  128 + ((c \div 64) % 64), 128 + (c % 64) >>
        ELSE bad

\* Value.Convert, where ConvertibleTo holds: integers are 64 bits wide.
Convert(v, to) ==
    IF numeric(typeOf(v)) /\ numeric(to) THEN intValue(to, v.n)
    ELSE IF numeric(typeOf(v)) /\ to.k = "string" THEN stringValue(runeString(v.n))
    ELSE v

\* reflect.New(t).Elem(): the zero value of the type t.
RECURSIVE zeroValue(_)
zeroValue(t) ==
    CASE numeric(t) -> intValue(t, word(0))
      [] t.k = "bool" -> boolValue(FALSE)
      [] t.k = "string" -> stringValue(<< >>)
      [] t.k = "ptr" -> nilPointer(t.elem)
      [] t.k = "slice" -> sliceValue(t.elem, << >>)
      [] t.k = "map" -> goMap(t.key, t.elem, << >>)
      [] t.k = "struct" ->
           instance(t, [n \in {t.fields[i].name : i \in DOMAIN t.fields} |->
                          zeroValue(t.fields[CHOOSE i \in DOMAIN t.fields :
                                              t.fields[i].name = n].type)])

\* "int(index)" of a decoded index: -1, a number below 128^2, or else a
\* number that no declaration uses.
intOf(index) ==
    IF \A i \in 1..NumDigits :
          index[i] = (IF i = NumDigits THEN 2 ^ TopBits - 1 ELSE 127) THEN -1
    ELSE IF \A i \in 3..NumDigits : index[i] = 0 THEN index[1] + 128 * index[2]
    ELSE 16384

\* The results of setValue: the field is set, it is not, or a panic.
bound(into, fd, v) == [ok |-> TRUE, panic |-> FALSE, into |-> [into EXCEPT !.f[fd.name] = v]]
unbound(into) == [ok |-> FALSE, panic |-> FALSE, into |-> into]
panicked(into) == [ok |-> FALSE, panic |-> TRUE, into |-> into]

\* The first element of vals that is the nil interface or does not convert
\* to t: 0 if there is none.
firstBad(vals, t) ==
    LET bad == {i \in 1..Len(vals) :
                  vals[i] = Nil \/ ~ConvertibleTo(typeOf(vals[i]), t)}
    IN  IF bad = {} THEN 0 ELSE CHOOSE i \in bad : \A j \in bad : i <= j

\* makeMap: an empty map for the nil *MapValue; reflect.TypeOf of a nil key or
\* value is the nil Type, on which ConvertibleTo panics. A key that comes
\* twice keeps its last value.
makeMap(v, mapType) ==
    IF v.nil THEN [ok |-> TRUE, panic |-> FALSE,
                   mi |-> goMap(mapType.key, mapType.elem, << >>)]
    ELSE
    LET keyOf(i) == Convert(v.keys[i], mapType.key)
        last(key) == CHOOSE i \in 1..Len(v.keys) :
                        /\ keyOf(i) = key
                        /\ \A j \in 1..Len(v.keys) : keyOf(j) = key => j <= i
    IN  Once(firstBad(v.keys, mapType.key), LAMBDA k :
          IF k # 0 THEN [ok |-> FALSE, panic |-> v.keys[k] = Nil, mi |-> Nil]
          ELSE Once(firstBad(v.values, mapType.elem), LAMBDA e :
                 IF e # 0 THEN [ok |-> FALSE, panic |-> v.values[e] = Nil, mi |-> Nil]
                 ELSE [ok |-> TRUE, panic |-> FALSE,
                       mi |-> goMap(mapType.key, mapType.elem,
                                    [key \in {keyOf(i) : i \in 1..Len(v.keys)} |->
                                       Convert(v.values[last(key)], mapType.elem)])]))

\* Whether the decoded value rv is a pointer, and the type it points to.
isPointer(rv) == rv.k \in {"ptr", "MapValue", "OneOfValue"}
elemType(rv) == IF rv.k = "ptr" THEN rv.elem ELSE [k |-> rv.k]

\* setValue: the cases of the switch in their order. rv.Type() panics for
\* the nil interface, and rv.Elem().Type() for a nil pointer.
RECURSIVE setValue(_, _, _)
setValue(into, fd, rv) ==
    IF fd.type.k = "ptr" /\ rv = Nil THEN [ok |-> TRUE, panic |-> FALSE, into |-> into]
    ELSE IF rv = Nil THEN panicked(into)
    ELSE IF fd.type.k # "ptr" /\ isPointer(rv) /\ rv.nil THEN panicked(into)
    ELSE IF fd.type.k # "ptr" /\ isPointer(rv) /\ ConvertibleTo(elemType(rv), fd.type)
      THEN bound(into, fd, Convert(rv.v, fd.type))
    ELSE IF ConvertibleTo(typeOf(rv), fd.type)
      THEN bound(into, fd, Convert(rv, fd.type))
    ELSE IF rv.k = "array" /\ fd.type.k = "slice"
      THEN Once(firstBad(rv.elems, fd.type.elem), LAMBDA i :
             IF i # 0
               THEN IF rv.elems[i] = Nil THEN panicked(into) ELSE unbound(into)
               ELSE bound(into, fd,
                          sliceValue(fd.type.elem,
                                     [j \in 1..Len(rv.elems) |->
                                        Convert(rv.elems[j], fd.type.elem)])))
    ELSE IF fd.type.k = "bool" /\ rv.k \in {"uint64", "int64"}
      THEN bound(into, fd, boolValue(rv.k = "int64"))
    ELSE IF rv.k = "MapValue" /\ fd.type.k = "map"
      THEN Once(makeMap(rv, fd.type), LAMBDA made :
             IF made.panic THEN panicked(into)
             ELSE IF ~made.ok THEN unbound(into)
             ELSE bound(into, fd, made.mi))
    ELSE IF rv.k = "ptr" /\ rv.elem.k = "struct" /\ ~rv.nil /\ fd.type.k = "struct"
      THEN setValue(into, fd, rv.v)
    ELSE unbound(into)

\* "Has" + name.
hasName(name) == << "Has" >> \o name

UnknownField(i, t, v) == [Index |-> i, Type |-> t, Data |-> v]

\* The first loop of decodeStructToConcrete, from the field i on: the
\* instance, the unknown fields and maxI, or a panic.
RECURSIVE bindFields(_, _, _, _, _)
bindFields(t, allFields, str, i, st) ==
    LET vLen == Len(str.values)
        f == allFields[i + 1]
        v == str.values[i + 1]
        step(inst, unknownFields) ==
            bindFields(t, allFields, str, i + 1,
                       [st EXCEPT !.inst = inst, !.maxI = i,
                                  !.unknownFields = unknownFields])
        unknown == Append(st.unknownFields, UnknownField(i, str.types[i + 1], v))
        panic == [st EXCEPT !.panic = TRUE]
        hasF(field) == {j \in DOMAIN t.fields :
                          /\ t.fields[j].name = hasName(field.name)
                          /\ t.fields[j].type.k = "bool"}
        \* What the loop does with the result sv of setValue for a field, of
        \* which has says whether it has a Has flag.
        after(sv, has, name) ==
            IF sv.panic THEN [next |-> FALSE, st |-> panic]
            ELSE IF ~sv.ok
              THEN [next |-> TRUE, inst |-> st.inst, unknownFields |-> unknown]
            ELSE IF has
              THEN [next |-> TRUE,
                    inst |-> [sv.into EXCEPT !.f[hasName(name)] = boolValue(TRUE)],
                    unknownFields |-> st.unknownFields]
            ELSE [next |-> TRUE, inst |-> sv.into, unknownFields |-> st.unknownFields]
        \* One turn of the loop: a panic, or the instance and the unknown
        \* fields after it.
        turn ==
            IF ~f.OneOf THEN after(setValue(st.inst, f.Field, v), FALSE, << >>)
            ELSE IF v = Nil \/ v.k # "OneOfValue"
              THEN [next |-> TRUE, inst |-> st.inst, unknownFields |-> unknown]
            ELSE IF v.nil THEN [next |-> FALSE, st |-> panic]
            ELSE IF intOf(v.index) = -1
              THEN [next |-> TRUE, inst |-> st.inst, unknownFields |-> st.unknownFields]
            ELSE IF intOf(v.index) \notin DOMAIN f.OneOfIndexes
              THEN [next |-> FALSE, st |-> panic]
            ELSE LET field == f.OneOfIndexes[intOf(v.index)]
                     val == v.data
                 IN  IF val = Nil THEN [next |-> FALSE, st |-> panic]
                     ELSE IF ~AssignableTo(typeOf(val), field.type.elem)
                       THEN [next |-> FALSE, st |-> panic]
                     ELSE after(setValue(st.inst, field,
                                         pointer(field.type.elem, val)),
                                hasF(field) # {}, field.name)
    IN  IF i >= Len(allFields) \/ i > vLen THEN st
        ELSE IF i = vLen THEN panic
        ELSE Once(turn, LAMBDA done :
               IF done.next THEN step(done.inst, done.unknownFields) ELSE done.st)

\* The second loop: the values after maxI, with the type and the index that
\* the position in str.values[maxI+1:] gives.
trailing(str, maxI) ==
    [i \in 1..(Len(str.values) - (maxI + 1)) |->
        UnknownField(maxI + (i - 1), str.types[i], str.values[maxI + 1 + i])]

\* A struct type that is a StructValuer with identifier id and embeds
\* *Structure, and a field of it with its index tag.
structType(name, id, fields) ==
    [k |-> "struct", name |-> name, id |-> id, valuer |-> TRUE, structure |-> TRUE,
     fields |-> fields]
field(name, type, tag) == [name |-> << name >>, type |-> type, tag |-> tag]

\* The registered types: OtherTS and TS as in the tests of the package, with
\* an optional string; the OneOf group of TS in Choice, its slice, map and
\* nested struct in Holder.
OtherTS ==
    structType("OtherTS", 2, << field("Project", stringType, << num(0) >>) >>)
TS ==
    structType("TS", 1,
        << field("ID", intType, << num(0) >>),
           field("Name", stringType, << num(1) >>),
           field("IsAdmin", boolType, << num(2) >>),
           field("Optional", ptrTo(stringType), << num(3) >>) >>)
Choice ==
    structType("Choice", 3,
        << field("OneOfA", ptrTo(stringType), << num(0), num(0) >>),
           field("HasOneOfA", boolType, << >>),
           field("OneOfB", ptrTo(intType), << num(0), num(1) >>),
           field("HasOneOfB", boolType, << >>),
           field("Name", stringType, << num(1) >>) >>)
Holder ==
    structType("Holder", 4,
        << field("Keys", sliceOf(stringType), << num(0) >>),
           field("AMap", mapOf(stringType, intType), << num(1) >>),
           field("Other", OtherTS, << num(2) >>) >>)

\* RegisterStructType(TS{}, OtherTS{}, Choice{}, Holder{}): the types by the
\* bytes of their identifiers.
registry ==
    [id \in {idBytes(t.id) : t \in {OtherTS, TS, Choice, Holder}} |->
        CHOOSE t \in {OtherTS, TS, Choice, Holder} : idBytes(t.id) = id]

\* What decodeStructToConcrete returns for the struct str that decodeStruct
\* read, which left rest in the reader.
concrete(str, rest) ==
    IF str.id \notin DOMAIN registry
      THEN [val |-> [k |-> "encodedStruct", id |-> str.id,
                     values |-> str.values, types |-> str.types],
            err |-> ErrUnknownStructType, rest |-> rest]
    ELSE LET t == registry[str.id]
         IN  Once(validateAndExtractStruct(t), LAMBDA allFields :
               IF allFields.err # NoError THEN fail(allFields.err, rest)
               ELSE Once(bindFields(t, allFields.fields, str, 0,
                                    [inst |-> zeroValue(t), unknownFields |-> << >>,
                                     maxI |-> 0, panic |-> FALSE]),
                         LAMBDA st :
                           IF st.panic THEN fail(ErrPanic, rest)
                           ELSE [val |-> pointer(t, [st.inst EXCEPT !.unknown =
                                                       st.unknownFields
                                                         \o trailing(str, st.maxI)]),
                                 err |-> NoError, rest |-> rest]))

decodeStructToConcrete(b, r) ==
    Once(decodeStruct(b, r), LAMBDA str :
      IF str.err # NoError THEN str ELSE concrete(str.val, str.rest))

\* ---------------------------------------------------------------------
\* Encode and Decode of values: instances of the registered types, maps, and
\* structs as they can arrive on the wire.

strA == stringValue(<< 65 >>)
strB == stringValue(<< 66 >>)
strEmpty == stringValue(<< >>)
int(n) == intValue(intType, word(n))

OtherTSValues ==
    {instance(OtherTS, (<< "Project" >> :> p)) : p \in {strEmpty, strA}}

TSValues ==
    {instance(TS, (<< "ID" >> :> id) @@ (<< "Name" >> :> name)
                    @@ (<< "IsAdmin" >> :> boolValue(admin))
                    @@ (<< "Optional" >> :> opt)) :
        id \in {int(0), int(5)}, name \in {strEmpty, strA}, admin \in BOOLEAN,
        opt \in {nilPointer(stringType), pointer(stringType, strA)}}

\* One member of the OneOf group at most is set, and the Has flags say which.
ChoiceValues ==
    {instance(Choice, (<< "OneOfA" >> :> a) @@ (<< "HasOneOfA" >> :> boolValue(~a.nil))
                        @@ (<< "OneOfB" >> :> b) @@ (<< "HasOneOfB" >> :> boolValue(~b.nil))
                        @@ (<< "Name" >> :> strA)) :
        a \in {nilPointer(stringType), pointer(stringType, strA),
               pointer(stringType, strEmpty)},
        b \in {nilPointer(intType), pointer(intType, int(5))}}
      \ {v \in {instance(Choice, (<< "OneOfA" >> :> a) @@ (<< "HasOneOfA" >> :> boolValue(TRUE))
                                    @@ (<< "OneOfB" >> :> pointer(intType, int(5)))
                                    @@ (<< "HasOneOfB" >> :> boolValue(TRUE))
                                    @@ (<< "Name" >> :> strA)) :
                  a \in {pointer(stringType, strA), pointer(stringType, strEmpty)}} : TRUE}

AMaps ==
    {goMap(stringType, intType, m) :
        m \in {<< >>, (strA :> int(1)), (strA :> int(1)) @@ (strB :> int(0))}}

HolderValues ==
    {instance(Holder, (<< "Keys" >> :> sliceValue(stringType, keys))
                        @@ (<< "AMap" >> :> amap) @@ (<< "Other" >> :> other)) :
        keys \in {<< >>, << strA >>, << strA, strEmpty >>},
        amap \in AMaps, other \in OtherTSValues}

\* Maps of pointers and of bools, besides those of AMaps.
MapValues ==
    AMaps
      \cup {goMap(stringType, ptrTo(intType), m) :
              m \in {(strA :> pointer(intType, int(5))),
                     (strA :> pointer(intType, int(5))) @@ (strB :> pointer(intType, int(1))),
                     (strA :> nilPointer(intType)) @@ (strB :> pointer(intType, int(5)))}}
      \cup {goMap(stringType, boolType, (strA :> boolValue(TRUE)))}
      \cup {goMap(stringType, stringType, (strA :> strB) @@ (strB :> strEmpty))}

\* The orders in which a map with keys among "A" and "B" is ranged over.
MapOrders == {<< strA, strB >>, << strB, strA >>}

\* The values that arrive at the positions of a struct on the wire: Void, the
\* scalar 5, the string "A", a OneOf with no body, and the OneOf values with
\* index 0 and 2 that hold "A".
WireValues ==
    {encodeVoid, encodeUint(word(5)), encodeString(<< 65 >>), << 224 >>,
     encodeOneOf(0, strA, << >>).b, encodeOneOf(2, strA, << >>).b}

RECURSIVE concat(_)
concat(bs) == IF bs = << >> THEN << >> ELSE Head(bs) \o concat(Tail(bs))

\* The struct with identifier id and the values vals, as encodeStruct lays
\* it out.
wireStruct(id, vals) ==
    withTag(encodeInteger(sizeOf(Len(concat(vals)) + 8)), 128)
      \o idBytes(id) \o concat(vals)

WireStructs(maxWire) ==
    {[k |-> "wire", t |-> t, vals |-> vals] :
        t \in {OtherTS, Choice},
        vals \in UNION {[1..n -> WireValues] : n \in 0..maxWire}}

InitValues ==
    \/ /\ cdIn \in [v : TSValues \cup OtherTSValues \cup ChoiceValues
                          \cup HolderValues \cup MapValues,
                    ord : MapOrders]
       /\ cdPc = "encode"
       /\ cdBytes = << >>
       /\ cdOut = << >>
    \/ /\ cdIn \in WireStructs(MaxWire)
       /\ cdPc = "encoded"
       /\ cdBytes = encoded(wireStruct(cdIn.t.id, cdIn.vals))
       /\ cdOut = << >>

\* Encode(v).
EncodeValue ==
    /\ cdPc = "encode"
    /\ cdBytes' = encode(cdIn.v, cdIn.ord)
    /\ cdPc' = "encoded"
    /\ UNCHANGED << cdIn, cdOut, requestVars, scalarVars, connVars, serverVars >>

\* Decode(bytes.NewReader(data)).
DecodeValue ==
    /\ cdPc = "encoded"
    /\ cdBytes.err = NoError
    /\ cdOut' = Decode(cdBytes.b)
    /\ cdPc' = "decoded"
    /\ UNCHANGED << cdIn, cdBytes, requestVars, scalarVars, connVars, serverVars >>

InitCodec ==
    /\ InitConn
    /\ inClients = FALSE
    /\ waitClients = 0
    /\ InitNewServer
    /\ InitNoRequest
    /\ InitNoScalar
    /\ InitValues

NextCodec ==
    \/ EncodeValue
    \/ DecodeValue

SpecCodec == InitCodec /\ [][NextCodec]_vars

\* The value that is encoded is an instance of a registered type, a map, or
\* the input is a struct as it arrives on the wire.
StructInput == "v" \in DOMAIN cdIn /\ cdIn.v.k = "struct"
MapInput == "v" \in DOMAIN cdIn /\ cdIn.v.k = "map"
WireInput == "vals" \in DOMAIN cdIn

\* The names of the fields of t that have an index tag, and the values of
\* the members of its OneOf groups in the instance v.
declaredNames(t) == {t.fields[i].name : i \in {j \in DOMAIN t.fields : t.fields[j].tag # << >>}}
members(v) == {v.f[v.t.fields[i].name] : i \in {j \in DOMAIN v.t.fields : Len(v.t.fields[j].tag) = 2}}
hasFlags(v) == {v.f[hasName(v.t.fields[i].name)] : i \in {j \in DOMAIN v.t.fields : Len(v.t.fields[j].tag) = 2}}
NoneSet(v) == members(v) # {} /\ \A m \in members(v) : m.nil

\* A decoded struct with no member of its OneOf group set.
DecodedUnset ==
    /\ cdOut.err = NoError
    /\ cdOut.t = Struct
    /\ \A m \in members(cdOut.val.v) : m.nil
    /\ \A h \in hasFlags(cdOut.val.v) : ~h.b

\* C24: a struct whose OneOf group has no member set is encoded without an
\* error, with the single byte 0xE0 at the position of the group, and the
\* encoding, decoded into the registered type, gives an instance whose
\* members of the group are all nil and whose Has flags are all false.
UnsetOneOfRoundTrips ==
    /\ (StructInput /\ NoneSet(cdIn.v) /\ cdPc \in {"encoded", "decoded"}) =>
          /\ cdBytes.err = NoError
          /\ cdBytes.b = wireStruct(cdIn.v.t.id,
                                    << << 224 >>, encodeString(cdIn.v.f[<< "Name" >>].s) >>)
    /\ (StructInput /\ NoneSet(cdIn.v) /\ cdPc = "decoded") => DecodedUnset
    /\ (WireInput /\ cdIn.t = Choice /\ cdIn.vals = << << 224 >>, encodeString(<< 65 >>) >>
          /\ cdPc = "decoded") => DecodedUnset

\* The value at the position i (from 0) of the struct on the wire, decoded on
\* its own, and whether it binds to the field of that index: a field that is
\* no OneOf group takes what setValue accepts, a group the value of one of
\* its members, or no member at all.
positionValue(i) == Decode(cdIn.vals[i + 1])
declaredFields == validateAndExtractStruct(cdIn.t).fields
binds(i) ==
    /\ i < Len(declaredFields)
    /\ LET f == declaredFields[i + 1]
           v == positionValue(i).val
       IN  IF ~f.OneOf THEN setValue(zeroValue(cdIn.t), f.Field, v).ok
           ELSE /\ v # Nil
                /\ v.k = "OneOfValue"
                /\ \/ v.nil
                   \/ /\ intOf(v.index) \in DOMAIN f.OneOfIndexes
                      /\ v.data # Nil
                      /\ AssignableTo(typeOf(v.data),
                                      f.OneOfIndexes[intOf(v.index)].type.elem)

\* C25: after a struct is decoded into its registered type, UnknownFields
\* holds, for every position of the wire whose value did not bind to a
\* declared field, exactly one entry with the index of the position and the
\* type and the value decoded there, and no entry for the positions that
\* bound; decoding does not fail.
UnknownFieldsExact ==
    (WireInput /\ cdPc = "decoded") =>
        /\ cdOut.err = NoError
        /\ cdOut.t = Struct
        /\ LET unknown == cdOut.val.v.unknown
               at(i) == {j \in DOMAIN unknown : unknown[j].Index = i}
           IN  /\ \A j \in DOMAIN unknown : unknown[j].Index \in 0..(Len(cdIn.vals) - 1)
               /\ \A i \in 0..(Len(cdIn.vals) - 1) :
                     IF binds(i) THEN at(i) = {}
                     ELSE /\ Cardinality(at(i)) = 1
                          /\ \A j \in at(i) :
                                unknown[j] = UnknownField(i, positionValue(i).t,
                                                          positionValue(i).val)

\* C26: an instance of a registered struct type in which every OneOf group
\* has a member set is encoded without an error, and Decode of the encoding
\* returns the type Struct and an instance whose declared fields are those of
\* the original.
StructRoundTrip ==
    (StructInput /\ ~NoneSet(cdIn.v)) =>
        /\ cdPc \in {"encoded", "decoded"} => cdBytes.err = NoError
        /\ cdPc = "decoded" =>
              /\ cdOut.err = NoError
              /\ cdOut.t = Struct
              /\ \A n \in declaredNames(cdIn.v.t) : cdOut.val.v.f[n] = cdIn.v.f[n]

\* Whether the decoded value d stands for the value v of the map: a pointer
\* for what it points to or, nil, for no value; an integer by its sign and
\* word; a bool by the sign of the scalar.
RECURSIVE standsFor(_, _)
standsFor(d, v) ==
    CASE v.k = "ptr" -> IF v.nil THEN d = Nil ELSE standsFor(d, v.v)
      [] d = Nil -> FALSE
      [] v.k \in {"int", "int64"} -> d.k = "int64" /\ d.n = v.n
      [] v.k = "uint64" -> d.k = "uint64" /\ d.n = v.n
      [] v.k = "bool" -> d.k \in {"int64", "uint64"} /\ (d.k = "int64") = v.b
      [] OTHER -> d = v

\* The keys and the values of a decoded map; the nil *MapValue that decodeMap
\* returns for a body of size 0 has none.
KeysOf(d) == IF d.nil THEN << >> ELSE d.keys
ValuesOf(d) == IF d.nil THEN << >> ELSE d.values

\* C30: a map with encodable keys and values is encoded without an error,
\* and decoding gives a MapValue with as many keys and as many values as the
\* map has entries, where Keys[n] and Values[n] are an entry of the map for
\* every n and every entry of the map is there once.
MapRoundTrip ==
    MapInput =>
        /\ cdPc \in {"encoded", "decoded"} => cdBytes.err = NoError
        /\ cdPc = "decoded" =>
              /\ cdOut.err = NoError
              /\ cdOut.t = Map
              /\ cdOut.val.k = "MapValue"
              /\ Len(KeysOf(cdOut.val)) = Cardinality(DOMAIN cdIn.v.m)
              /\ Len(ValuesOf(cdOut.val)) = Cardinality(DOMAIN cdIn.v.m)
              /\ \A key \in DOMAIN cdIn.v.m :
                    Cardinality({n \in DOMAIN KeysOf(cdOut.val) :
                                   /\ standsFor(KeysOf(cdOut.val)[n], key)
                                   /\ standsFor(ValuesOf(cdOut.val)[n], cdIn.v.m[key])}) = 1

\* The names of the fields declared at the position i (from 0): the field, or
\* the members of the OneOf group.
namesAt(i) ==
    LET f == declaredFields[i + 1]
    IN  IF f.OneOf THEN {f.OneOfIndexes[k].name : k \in DOMAIN f.OneOfIndexes}
        ELSE {f.Field.name}

FewerValues == WireInput /\ Len(cdIn.vals) < Len(declaredFields)

\* C39: Decode of a struct that holds fewer values than its registered type
\* declares fields returns no error and an instance of the type in which a
\* value that binds is in its field and the fields of the positions without
\* a value are at their zero values.
FewerValuesTolerated ==
    (FewerValues /\ cdPc = "decoded") =>
        /\ cdOut.err = NoError
        /\ cdOut.t = Struct
        /\ \A i \in 0..(Len(declaredFields) - 1) : \A n \in namesAt(i) :
              IF i >= Len(cdIn.vals)
                THEN cdOut.val.v.f[n] = zeroValue(cdIn.t).f[n]
                ELSE (binds(i) /\ ~declaredFields[i + 1].OneOf) =>
                        cdOut.val.v.f[n]
                          = setValue(zeroValue(cdIn.t), declaredFields[i + 1].Field,
                                     positionValue(i).val).into.f[n]

\* ------------------------------------------------------------------ the frames
\* A Request, a Response and an Error are encoded after the three bytes of
\* their magic and decoded from a reader. Headers and UserData are maps from
\* string to string; Method and Kind are words of 64 bits.

stringMap(m) == goMap(stringType, stringType, m)

Request(method, headers) ==
    [frame |-> "Request", Method |-> method, Headers |-> headers]
Response(headers, stream) ==
    [frame |-> "Response", Headers |-> headers, Stream |-> stream]
Error(kind, headers, identifier, userData) ==
    [frame |-> "Error", Kind |-> kind, Headers |-> headers,
     Identifier |-> identifier, UserData |-> userData]

\* The result of a frame's Decode: the error and the receiver, with the
\* fields set before the error.
decodedFrame(e, r) == [err |-> e, frame |-> r]

\* The map[string]string that Decode makes of the decoded map h: makeMap
\* and, when it does not hold, ErrCorruptStream.
headersOf(h) ==
    Once(makeMap(h, mapOf(stringType, stringType)), LAMBDA made :
      IF made.panic THEN [err |-> ErrPanic, mv |-> Nil]
      ELSE IF ~made.ok THEN [err |-> ErrCorruptStream, mv |-> Nil]
      ELSE [err |-> NoError, mv |-> made.mi])

\* "io.ReadFull(re, head)", then decodeMap and makeMap.
readHeaders(re) ==
    Once(readFull(re, 1), LAMBDA head :
      IF head.err # NoError THEN [err |-> head.err, mv |-> Nil, rest |-> head.rest]
      ELSE Once(decodeMap(head.data[1], head.rest), LAMBDA h :
             IF h.err # NoError THEN [err |-> h.err, mv |-> Nil, rest |-> h.rest]
             ELSE Once(headersOf(h.val), LAMBDA made :
                    [err |-> made.err, mv |-> made.mv, rest |-> h.rest])))

\* "io.ReadFull(re, head)", then decodeScalar.
readScalar(re) ==
    Once(readFull(re, 1), LAMBDA head :
      IF head.err # NoError
        THEN [err |-> head.err, signed |-> FALSE, value |-> word(0), rest |-> head.rest]
        ELSE Once(decodeScalar(head.data[1], head.rest), LAMBDA sc :
               [err |-> IF sc.err THEN ErrEOF ELSE NoError, signed |-> sc.signed,
                value |-> sc.value, rest |-> sc.rest]))

\* The magic of a frame: io.ReadFull of three bytes and their comparison.
readMagic(re, magic) ==
    Once(readFull(re, 3), LAMBDA m :
      [err |-> IF m.err # NoError THEN m.err
               ELSE IF m.data # magic THEN ErrCorruptStream
               ELSE NoError,
       rest |-> m.rest])

\* The frame of a Request after its magic: the length, the method, the map.
requestBody(header, heads) ==
    encodeUint(sizeOf(Len(header) + Len(heads))) \o header \o heads

RequestEncode(r, ord) ==
    Once(encodeMap(r.Headers, ord), LAMBDA heads :
      IF heads.err # NoError THEN heads
      ELSE encoded(magicRequest \o requestBody(encodeUint(r.Method), heads.b)))

RequestDecode(re) ==
    LET r == Request(word(0), stringMap(<< >>))
    IN  Once(readMagic(re, magicRequest), LAMBDA magic :
          IF magic.err # NoError THEN decodedFrame(magic.err, r)
          ELSE Once(readScalar(magic.rest), LAMBDA l :
            IF l.err # NoError THEN decodedFrame(l.err, r)
            ELSE Once(readScalar(limitReader(l.rest, limitOf(l.value))), LAMBDA s :
              IF s.err # NoError THEN decodedFrame(s.err, r)
              ELSE Once(readHeaders(s.rest), LAMBDA h :
                IF h.err # NoError
                  THEN decodedFrame(h.err, [r EXCEPT !.Method = s.value])
                  ELSE decodedFrame(NoError, Request(s.value, h.mv))))))

ResponseEncode(r, ord) ==
    Once(encodeMap(r.Headers, ord), LAMBDA heads :
      IF heads.err # NoError THEN heads
      ELSE Once(encode(boolValue(r.Stream), ord), LAMBDA str :
             IF str.err # NoError THEN str
             ELSE encoded(magicResponse \o heads.b \o str.b)))

ResponseDecode(re) ==
    LET r == Response(stringMap(<< >>), FALSE)
    IN  Once(readMagic(re, magicResponse), LAMBDA magic :
          IF magic.err # NoError THEN decodedFrame(magic.err, r)
          ELSE Once(readHeaders(magic.rest), LAMBDA h :
            IF h.err # NoError THEN decodedFrame(h.err, r)
            ELSE Once(readScalar(h.rest), LAMBDA s :
              IF s.err # NoError THEN decodedFrame(s.err, [r EXCEPT !.Headers = h.mv])
              ELSE decodedFrame(NoError, Response(h.mv, s.signed)))))

ErrorEncode(e, ord) ==
    Once(encodeMap(e.Headers, ord), LAMBDA heads :
      IF heads.err # NoError THEN heads
      ELSE Once(encode(e.Identifier, ord), LAMBDA id :
        IF id.err # NoError THEN id
        ELSE Once(encodeMap(e.UserData, ord), LAMBDA ud :
          IF ud.err # NoError THEN ud
          ELSE encoded(magicError \o encodeUint(e.Kind) \o heads.b \o id.b \o ud.b))))

\* Identifier: "io.ReadFull(re, head)", then decodeString.
readIdentifier(re) ==
    Once(readFull(re, 1), LAMBDA head :
      IF head.err # NoError THEN [err |-> head.err, id |-> strEmpty, rest |-> head.rest]
      ELSE Once(decodeString(head.data[1], head.rest), LAMBDA id :
             [err |-> id.err, id |-> id.val, rest |-> id.rest]))

ErrorDecode(re) ==
    LET e == Error(word(0), stringMap(<< >>), strEmpty, stringMap(<< >>))
    IN  Once(readMagic(re, magicError), LAMBDA magic :
          IF magic.err # NoError THEN decodedFrame(magic.err, e)
          ELSE Once(readScalar(magic.rest), LAMBDA v :
            IF v.err # NoError THEN decodedFrame(v.err, e)
            ELSE Once(readHeaders(v.rest), LAMBDA h :
              IF h.err # NoError THEN decodedFrame(h.err, [e EXCEPT !.Kind = v.value])
              ELSE Once(readIdentifier(h.rest), LAMBDA id :
                IF id.err # NoError
                  THEN decodedFrame(id.err, [e EXCEPT !.Kind = v.value, !.Headers = h.mv])
                  ELSE Once(readHeaders(id.rest), LAMBDA ud :
                    IF ud.err # NoError
                      THEN decodedFrame(ud.err, Error(v.value, h.mv, id.id, e.UserData))
                      ELSE decodedFrame(NoError, Error(v.value, h.mv, id.id, ud.mv)))))))

FrameKinds == {"Request", "Response", "Error"}

magicOf(kind) ==
    CASE kind = "Request" -> magicRequest
      [] kind = "Response" -> magicResponse
      [] kind = "Error" -> magicError

frameEncode(r, ord) ==
    CASE r.frame = "Request" -> RequestEncode(r, ord)
      [] r.frame = "Response" -> ResponseEncode(r, ord)
      [] r.frame = "Error" -> ErrorEncode(r, ord)

frameDecode(kind, re) ==
    CASE kind = "Request" -> RequestDecode(re)
      [] kind = "Response" -> ResponseDecode(re)
      [] kind = "Error" -> ErrorDecode(re)

\* The method ids and error kinds that are sent: small ones, one of two
\* bytes, and those around bit 63.
bit63(n) == [word(n) EXCEPT ![NumDigits] = 2 ^ (TopBits - 1)]
FrameWords == {word(0), word(1), word(6), word(127), bit63(0), bit63(1), bit63(4)}

FrameHeaders ==
    {stringMap(m) : m \in {<< >>, (strA :> strB), (strA :> strEmpty) @@ (strB :> strA)}}

Frames ==
    {Request(m, h) : m \in FrameWords, h \in FrameHeaders}
      \cup {Response(h, s) : h \in FrameHeaders, s \in BOOLEAN}
      \cup {Error(k, h, id, ud) : k \in FrameWords, h \in FrameHeaders,
                                  id \in {strEmpty, strA},
                                  ud \in {stringMap(<< >>), stringMap(strB :> strB)}}

\* The streams a frame is decoded from besides the encoded frames: three
\* bytes out of those of the magics, and what follows them.
MagicBytes == {121, 114, 82, 101}
FrameStreams ==
    {<< a, b, c >> \o tail : a \in MagicBytes, b \in MagicBytes, c \in MagicBytes,
                             tail \in {<< >>, << 32, 192 >>, << 192, 48 >>}}

InitFrames ==
    \/ /\ cdIn \in [r : Frames, ord : MapOrders]
       /\ cdPc = "encode"
       /\ cdBytes = << >>
       /\ cdOut = << >>
    \/ /\ cdIn \in [kind : FrameKinds, stream : FrameStreams]
       /\ cdPc = "encoded"
       /\ cdBytes = encoded(cdIn.stream)
       /\ cdOut = << >>

\* r.Encode().
EncodeFrame ==
    /\ cdPc = "encode"
    /\ cdBytes' = frameEncode(cdIn.r, cdIn.ord)
    /\ cdPc' = "encoded"
    /\ UNCHANGED << cdIn, cdOut, requestVars, scalarVars, connVars, serverVars >>

\* decoded.Decode(bytes.NewReader(data)), of the frame that was encoded or of
\* the kind that is expected in the stream.
DecodeFrame ==
    /\ cdPc = "encoded"
    /\ cdBytes.err = NoError
    /\ cdOut' = frameDecode(IF "r" \in DOMAIN cdIn THEN cdIn.r.frame ELSE cdIn.kind,
                            cdBytes.b)
    /\ cdPc' = "decoded"
    /\ UNCHANGED << cdIn, cdBytes, requestVars, scalarVars, connVars, serverVars >>

InitFrame ==
    /\ InitConn
    /\ inClients = FALSE
    /\ waitClients = 0
    /\ InitNewServer
    /\ InitNoRequest
    /\ InitNoScalar
    /\ InitFrames

NextFrame ==
    \/ EncodeFrame
    \/ DecodeFrame

SpecFrame == InitFrame /\ [][NextFrame]_vars

FrameInput == "r" \in DOMAIN cdIn
StreamInput == "stream" \in DOMAIN cdIn

\* C29: a frame is encoded without an error and Decode of the encoding gives
\* no error and the frame that was encoded, a nil map being an empty one; and
\* Decode of a stream whose first three bytes are not the magic of the frame
\* returns ErrCorruptStream.
FrameRoundTrip ==
    /\ FrameInput =>
          /\ cdPc \in {"encoded", "decoded"} => cdBytes.err = NoError
          /\ cdPc = "decoded" => cdOut.err = NoError /\ cdOut.frame = cdIn.r
    /\ (StreamInput /\ cdPc = "decoded"
          /\ SubSeq(cdIn.stream, 1, 3) # magicOf(cdIn.kind)) =>
          cdOut.err = ErrCorruptStream

\* ------------------------------------------------------- arrays and strings
\* Slices of unsigned integers, of strings and of floats, and strings, are
\* encoded and decoded. A float is held by the bytes of its bits, little
\* endian.

uint(w) == intValue(uint64Type, w)
float32(raw) == [k |-> "float", bits |-> 32, raw |-> raw]
float64(raw) == [k |-> "float", bits |-> 64, raw |-> raw]
floatType(bits) == [k |-> "float", bits |-> bits]

\* The sequences of up to n elements of the set s.
UpTo(n, s) == UNION {[1..len -> s] : len \in 0..n}

strAB == stringValue(<< 65, 66 >>)

\* The elements of the slices: integers below 8, of two bytes and around
\* bit 63; strings of up to two bytes; the floats 0, -0, 0.1 and -2.
ArrayUints == {uint(w) : w \in {word(0), word(5), word(127), bit63(0), bit63(4)}}
ArrayStrings == {strEmpty, strA, strAB}
ArrayFloat32s ==
    {float32(raw) : raw \in {<< 0, 0, 0, 0 >>, << 0, 0, 0, 128 >>,
                              << 205, 204, 204, 61 >>, << 0, 0, 0, 192 >>}}
ArrayFloat64s ==
    {float64(raw) : raw \in {<< 0, 0, 0, 0, 0, 0, 0, 0 >>, << 0, 0, 0, 0, 0, 0, 0, 128 >>,
                              << 154, 153, 153, 153, 153, 153, 185, 63 >>}}

Arrays(maxElems) ==
    {sliceValue(uint64Type, e) : e \in UpTo(maxElems, ArrayUints)}
      \cup {sliceValue(stringType, e) : e \in UpTo(maxElems, ArrayStrings)}
      \cup {sliceValue(floatType(32), e) : e \in UpTo(maxElems, ArrayFloat32s)}
      \cup {sliceValue(floatType(64), e) : e \in UpTo(maxElems, ArrayFloat64s)}

InitArrays ==
    /\ cdIn \in [v : Arrays(MaxElems) \cup ArrayStrings, ord : {<< >>}]
    /\ cdPc = "encode"
    /\ cdBytes = << >>
    /\ cdOut = << >>

InitArray ==
    /\ InitConn
    /\ inClients = FALSE
    /\ waitClients = 0
    /\ InitNewServer
    /\ InitNoRequest
    /\ InitNoScalar
    /\ InitArrays

NextArray ==
    \/ EncodeValue
    \/ DecodeValue

SpecArray == InitArray /\ [][NextArray]_vars

ArrayInput == cdIn.v.k = "slice"
StringInput == cdIn.v.k = "string"

\* Whether the decoded value d is the element v that was encoded: an
\* unsigned integer by its word, a string by its bytes, a float by its width
\* and its bits, 0 and -0 being equal.
sameElement(d, v) ==
    /\ d # Nil
    /\ CASE v.k = "uint64" -> d.k = "uint64" /\ d.n = v.n
         [] v.k = "string" -> d = v
         [] v.k = "float" ->
              /\ d.k = "float"
              /\ d.bits = v.bits
              /\ IF isZeroFloat(v) THEN d.raw = << >> ELSE d.raw = v.raw

\* The sum of the lengths of the encodings of the elements.
RECURSIVE bodyLen(_)
bodyLen(elems) ==
    IF elems = << >> THEN 0
    ELSE Len(encode(Head(elems), << >>).b) + bodyLen(Tail(elems))

\* C31: a slice of unsigned integers, of strings or of floats, and a string,
\* is encoded without an error; the encoding of an empty slice is the byte
\* 0x60 and that of another one starts with the sum of the lengths of the
\* encodings of its elements; Decode of the encoding returns no error, the
\* type Array or String, and the same elements in the same order.
ArrayRoundTrip ==
    /\ cdPc \in {"encoded", "decoded"} =>
          /\ cdBytes.err = NoError
          /\ ArrayInput =>
                IF cdIn.v.elems = << >> THEN cdBytes.b = << 96 >>
                ELSE \E n \in 1..Len(cdBytes.b) :
                        /\ SubSeq(cdBytes.b, 1, n)
                             = withTag(encodeInteger(sizeOf(bodyLen(cdIn.v.elems))), 96)
                        /\ Len(cdBytes.b) = n + bodyLen(cdIn.v.elems)
    /\ cdPc = "decoded" =>
          /\ cdOut.err = NoError
          /\ cdOut.rest = << >>
          /\ ArrayInput =>
                /\ cdOut.t = Array
                /\ Len(cdOut.val.elems) = Len(cdIn.v.elems)
                /\ \A i \in 1..Len(cdIn.v.elems) :
                      sameElement(cdOut.val.elems[i], cdIn.v.elems[i])
          /\ StringInput => cdOut.t = String /\ cdOut.val = cdIn.v

\* ------------------------------------------------------------- registration
\* TryRegisterStructType and RegisterStructType on the registry, which is
\* empty when the program starts. The registry of a state is cdOut.registry,
\* by identifier; cdOut.was is the registry before the last call and cdIn.v
\* holds the arguments of that call.

\* The loop of TryRegisterStructType from the i-th argument on.
RECURSIVE tryRegisterFrom(_, _, _)
tryRegisterFrom(reg, v, i) ==
    IF i > Len(v) THEN [registry |-> reg, err |-> NoError]
    ELSE Once(validateAndExtractStruct(v[i]), LAMBDA plan :
           IF plan.err # NoError THEN [registry |-> reg, err |-> plan.err]
           ELSE tryRegisterFrom((v[i].id :> v[i]) @@ reg, v, i + 1))

TryRegisterStructType(reg, v) == tryRegisterFrom(reg, v, 1)

\* The types that are registered: well-formed ones, two of them with the
\* same identifier, and malformed ones: one with a gap between its indexes,
\* one without the field Structure, one whose least index is not 0.
WellFormedTypes ==
    {structType("User", 1, << field("Name", stringType, << num(0) >>) >>),
     structType("Account", 1, << field("ID", stringType, << num(0) >>),
                                 field("Owner", stringType, << num(1) >>) >>),
     structType("Group", 2, << field("OneOfA", ptrTo(stringType), << num(0), num(0) >>),
                               field("Name", stringType, << num(1) >>) >>)}
MalformedTypes ==
    {structType("Gap", 3, << field("A", stringType, << num(0) >>),
                             field("B", stringType, << num(2) >>) >>),
     [structType("Bare", 4, << field("A", stringType, << num(0) >>) >>)
        EXCEPT !.structure = FALSE],
     structType("Late", 1, << field("A", stringType, << num(1) >>) >>)}

RegisterArgs(maxTypes) ==
    UNION {[1..n -> WellFormedTypes \cup MalformedTypes] : n \in 1..maxTypes}

InitRegistry ==
    /\ cdIn = [v |-> << >>, calls |-> 0]
    /\ cdPc = "idle"
    /\ cdBytes = << >>
    /\ cdOut = [registry |-> << >>, was |-> << >>, err |-> NoError, panicked |-> FALSE]

\* TryRegisterStructType(v...)
TryRegister ==
    /\ cdIn.calls < MaxCalls
    /\ \E v \in RegisterArgs(MaxTypes) :
         /\ cdIn' = [v |-> v, calls |-> cdIn.calls + 1]
         /\ cdOut' = Once(TryRegisterStructType(cdOut.registry, v), LAMBDA done :
                       [registry |-> done.registry, was |-> cdOut.registry,
                        err |-> done.err, panicked |-> FALSE])
    /\ cdPc' = "tried"
    /\ UNCHANGED << cdBytes, requestVars, scalarVars, connVars, serverVars >>

\* RegisterStructType(v...): "panic(err)" for an error.
RegisterTypes ==
    /\ cdIn.calls < MaxCalls
    /\ \E v \in RegisterArgs(MaxTypes) :
         /\ cdIn' = [v |-> v, calls |-> cdIn.calls + 1]
         /\ cdOut' = Once(TryRegisterStructType(cdOut.registry, v), LAMBDA done :
                       [registry |-> done.registry, was |-> cdOut.registry,
                        err |-> done.err, panicked |-> done.err # NoError])
    /\ cdPc' = "registered"
    /\ UNCHANGED << cdBytes, requestVars, scalarVars, connVars, serverVars >>

InitRegistration ==
    /\ InitConn
    /\ inClients = FALSE
    /\ waitClients = 0
    /\ InitNewServer
    /\ InitNoRequest
    /\ InitNoScalar
    /\ InitRegistry

NextRegistration ==
    \/ TryRegister
    \/ RegisterTypes

SpecRegistration == InitRegistration /\ [][NextRegistration]_vars

\* C40: a call of TryRegisterStructType that returns an error leaves the
\* registry as it was before the call, and every identifier of the registry
\* maps to a type whose declaration validates.
RegistrationAtomic ==
    /\ (cdPc = "tried" /\ cdOut.err # NoError) => cdOut.registry = cdOut.was
    /\ \A id \in DOMAIN cdOut.registry :
          validateAndExtractStruct(cdOut.registry[id]).err = NoError

\* ------------------------------------------------------------ Client.DoRequest
\* DoRequest against a server whose reply is an encoded frame followed by
\* the bytes of a body. cdIn holds the frame the server sends, the body and
\* what happens to the request on its way (o); cdBytes is the reply; cdOut
\* is what DoRequest returns, with the connection and what was left unread.

ErrWantsStreamed == "ErrWantsStreamed"

\* What Response.Decode leaves of the reader.
afterResponse(re) ==
    Once(readMagic(re, magicResponse), LAMBDA magic :
      Once(readHeaders(magic.rest), LAMBDA h :
        Once(readScalar(h.rest), LAMBDA s : s.rest)))

\* performRequest: o is "ok" or the step that fails before the reply is
\* read (encoding, dialing, copying).
performed(r, buf, err, conn) == [r |-> r, buf |-> buf, err |-> err, conn |-> conn]
performRequest(o, sent) ==
    IF o \in {"encode", "dial"} THEN performed(Nil, << >>, o, "none")
    ELSE IF o = "io" \/ Len(sent) < 3 THEN performed(Nil, << >>, "io", "closed")
    ELSE LET to == classify(SubSeq(sent, 1, 3))
         IN  CASE to = "decodeError" ->
                    Once(ErrorDecode(sent), LAMBDA e :
                      performed(Nil, << >>,
                                IF e.err # NoError THEN e.err ELSE "Error", "closed"))
               [] to = "decodeResponse" ->
                    Once(ResponseDecode(sent), LAMBDA resp :
                      IF resp.err # NoError
                        THEN performed(Nil, << >>, resp.err, "closed")
                        ELSE performed(resp.frame, afterResponse(sent), NoError, "open"))
               [] OTHER -> performed(Nil, << >>, ErrCorruptStream, "closed")

\* A client that takes every Response for one that is not streamed.
neverStreamed(r) == FALSE

\* "if r.Stream".
wantsStreamed(r) == r.Stream

\* DoRequest: the value, the headers, the error; the connection after the
\* deferred buf.Close(), and what Decode left unread.
returned(val, headers, err, conn, rest) ==
    [val |-> val, headers |-> headers, err |-> err, conn |-> conn, rest |-> rest]
DoRequest(o, sent) ==
    Once(performRequest(o, sent), LAMBDA p :
      IF p.err # NoError THEN returned(Nil, Nil, p.err, p.conn, << >>)
      ELSE IF wantsStreamed(p.r) THEN returned(Nil, Nil, ErrWantsStreamed, "closed", p.buf)
      ELSE Once(Decode(p.buf), LAMBDA d :
             returned(d.val, p.r.Headers, d.err, "closed", d.rest)))

\* The values of a body with their bytes: void, a string, an unsigned
\* integer.
BodyValues ==
    {[val |-> Nil, b |-> << 0 >>],
     [val |-> strA, b |-> << 161, 2, 65 >>],
     [val |-> [k |-> "uint64", n |-> word(5)], b |-> << 42 >>]}

\* The bodies after the frame: nothing, one value, two values, a value cut
\* short.
ReplyBodies ==
    {[vals |-> << >>, b |-> << >>], [vals |-> << >>, b |-> << 161, 4, 65 >>]}
      \cup {[vals |-> << v >>, b |-> v.b] : v \in BodyValues}
      \cup {[vals |-> << v, w >>, b |-> v.b \o w.b] : v \in BodyValues, w \in BodyValues}

ReplyFrames ==
    {Response(h, s) : h \in FrameHeaders, s \in BOOLEAN}
      \cup {Error(word(6), stringMap(<< >>), strEmpty, stringMap(<< >>))}

InitReplies ==
    /\ cdIn \in [r : ReplyFrames, ord : MapOrders, body : ReplyBodies,
                 o : {"ok", "encode", "dial", "io"}]
    /\ cdPc = "request"
    /\ cdBytes = << >>
    /\ cdOut = << >>

\* The server writes the frame and the body.
ServerReply ==
    /\ cdPc = "request"
    /\ cdBytes' = Once(frameEncode(cdIn.r, cdIn.ord), LAMBDA f :
                    encoded(f.b \o cdIn.body.b))
    /\ cdPc' = "replied"
    /\ UNCHANGED << cdIn, cdOut, requestVars, scalarVars, connVars, serverVars >>

\* c.DoRequest(ctx, request, v).
ClientDoRequest ==
    /\ cdPc = "replied"
    /\ cdOut' = DoRequest(cdIn.o, cdBytes.b)
    /\ cdPc' = "returned"
    /\ UNCHANGED << cdIn, cdBytes, requestVars, scalarVars, connVars, serverVars >>

InitDoRequest ==
    /\ InitConn
    /\ inClients = FALSE
    /\ waitClients = 0
    /\ InitNewServer
    /\ InitNoRequest
    /\ InitNoScalar
    /\ InitReplies

NextDoRequest ==
    \/ ServerReply
    \/ ClientDoRequest

SpecDoRequest == InitDoRequest /\ [][NextDoRequest]_vars

\* The reply was read: the request reached the server and the server sent a
\* Response.
ResponseRead ==
    /\ cdPc = "returned"
    /\ cdIn.o = "ok"
    /\ cdIn.r.frame = "Response"

SelectLeft == srvPc \notin {"setState", "setStateWrite", "select"}

\* C37: the task that reads the header always terminates: it is never left
\* at its send on reqChan after serve has left the select that receives
\* from the channel, be it that the header was decoded, that the decoding
\* failed or that the timer fired first.
ReadHeaderExits == ~(rdPc = "send" /\ SelectLeft)

\* C35: for an accepted connection, under every interleaving of serve, the
\* pump's error path, the header timer and forceShutdown, the socket is
\* closed at most once and notifyClosed is started at most once, so that
\* the wait-group counter is decremented once and is never negative; and
\* once all tasks of the connection are done the socket was closed once and
\* the connection is out of the live set, the counter at zero.
ClosedOnce ==
    /\ rwCloses <= 1
    /\ notifyPending <= 1
    /\ waitClients >= 0
    /\ (rwCloses = 1 /\ notifyPending = 0) => (~inClients /\ waitClients = 0)

\* The steps of the tasks of a connection. The scheduler runs every task
\* that can take a step; the timer fires or the header arrives; the handler
\* ends, by returning or by a panic. forceShutdown is started or not.
ServeSteps ==
    \/ ServeSetStateRead \/ ServeSetStateWrite \/ ServeTimeout \/ ServeRecvHeader
    \/ ServeLookup \/ ServeMiddleware \/ ServeDecodeBody \/ ServeApply
    \/ ApplyChanClose \/ ApplyWgWait \/ ServeWriteHeader \/ ServeSetWriting
    \/ ServeWriteBody \/ ServeHandleError \/ ServeCloseBegin \/ ServeCloseEnd
HandlerSteps == HandlerReturn \/ HandlerPanic
PumpSteps ==
    \/ PumpRecv \/ PumpWriteHeader \/ PumpSetWriting \/ PumpWriteValue
    \/ PumpHandleError \/ PumpCloseBegin \/ PumpCloseEnd
ForceSteps == ForceCloseBegin \/ ForceCloseEnd

FairSpec ==
    /\ Spec
    /\ WF_vars(ServeSteps)
    /\ WF_vars(HandlerSteps)
    /\ WF_vars(PumpSteps)
    /\ WF_vars(ForceSteps)
    /\ WF_vars(ReadHeaderDecode)
    /\ WF_vars(NotifyClosed)

\* C38: the pump receives from the channel until the channel is closed,
\* also after an error of the header write, of encode or of the value
\* write: once apply has closed the channel the pump comes to its done(),
\* and apply's wait for the pump ends.
PumpAlwaysDrains ==
    /\ chClosed ~> (pumpPc = "done")
    /\ (srvPc = "wgWait") ~> (srvPc # "wgWait")

\* C36: serve, wherever it returns, leaves the connection in state Closed
\* with its socket closed; and, the handler returning, every connection
\* comes to state Closed and is removed from the live set.
ServeLeavesClosed ==
    /\ [](srvPc = "done" => (state = connStateClosed /\ rwClosed))
    /\ <>(state = connStateClosed)
    /\ <>(~inClients)

\* ------------------------------------------------------- apply and the body
\* apply with the decoded body and the input type of the handler. cdIn holds
\* the input type the handler declares (if it declares one) and the body
\* that Decode returned; cdOut what apply made of them.

\* A handler whose input is a pointer never gets a pointer made for it.
neverWrapped(inType, dataTyp) == FALSE

\* "handler.inType.Kind() == reflect.Pointer && dataTyp.Kind() !=
\* reflect.Pointer": the value is passed by a new pointer to it.
wrapped(inType, dataTyp) == inType.k = "ptr" /\ dataTyp.k # "ptr"

\* The first lines of apply: the error, or the parameter made of the body.
applyInput(h, inType, data) ==
    IF ~h.hasIn THEN [err |-> NoError, params |-> << >>]
    ELSE IF data = Nil THEN [err |-> TypeMismatch, params |-> << >>]
    ELSE LET wrap == wrapped(inType, typeOf(data))
             dataTyp == IF wrap THEN ptrTo(typeOf(data)) ELSE typeOf(data)
             dataVal == IF wrap THEN pointer(typeOf(data), data) ELSE data
         IN  IF ~ConvertibleTo(dataTyp, inType)
               THEN [err |-> TypeMismatch, params |-> << >>]
               ELSE [err |-> NoError, params |-> << Convert(dataVal, inType) >>]

\* The input types of the handlers and the bodies that are decoded: void,
\* integers, a string, a pointer to a struct.
InTypes ==
    {int64Type, stringType, ptrTo(int64Type), ptrTo(stringType), OtherTS,
     ptrTo(OtherTS), ptrTo(TS)}
Bodies ==
    {Nil, intValue(int64Type, word(5)), intValue(uint64Type, word(5)), strA}
      \cup {pointer(OtherTS, v) : v \in OtherTSValues}

\* serve has decoded the body and calls apply: the state is ReceivedBody,
\* the middlewares have passed the request on.
InitApply ==
    /\ state = connStateReceivedBody
    /\ mu = "free"
    /\ rwClosed = FALSE
    /\ rwCloses = 0
    /\ notifyPending = 0
    /\ inClients = TRUE
    /\ waitClients = 1
    /\ out = << >>
    /\ ioFailed = FALSE
    /\ srvPc = "apply"
    /\ srvNew = connStateReceivedBody
    /\ srvTmp = connStateReceivingBody
    /\ srvErr = NoError
    /\ handler \in Handlers
    /\ midIdx = NumMiddlewares + 1
    /\ req = PassedBy(NumMiddlewares)
    /\ mwCalls = [i \in 1..NumMiddlewares |-> [m |-> i, got |-> PassedBy(i - 1)]]
    /\ rdPc = "done"
    /\ rdVal = "req"
    /\ ch = << >>
    /\ chClosed = FALSE
    /\ pushed = 0
    /\ hres = "notCalled"
    /\ pumpPc = "off"
    /\ pumpV = 0
    /\ errored = FALSE
    /\ forcePc = "idle"
    /\ cliPc = "peek"
    /\ cliPos = 0
    /\ yielded = << >>
    /\ InitNewServer
    /\ InitNoRequest
    /\ InitNoScalar
    /\ cdIn \in [inType : InTypes, data : Bodies]
    /\ cdPc = "apply"
    /\ cdBytes = << >>
    /\ cdOut = << >>

\* apply, up to the call of the handler, the body and the input type given.
ApplyCall ==
    /\ ~ProcessDown
    /\ srvPc = "apply"
    /\ cdOut' = applyInput(handler, cdIn.inType, cdIn.data)
    /\ cdPc' = "applied"
    /\ IF cdOut'.err # NoError
         THEN /\ CallHandleError(cdOut'.err)
              /\ UNCHANGED << pumpPc, hres >>
         ELSE /\ srvPc' = "handler"
              /\ hres' = "running"
              /\ pumpPc' = IF handler.usesStreamer THEN "recv" ELSE pumpPc
              /\ UNCHANGED srvErr
    /\ UNCHANGED << state, sockVars, out, ioFailed, srvNew, srvTmp, handler, midIdx,
                    req, mwCalls, rdVars, ch, chClosed, pushed, pumpV, errored,
                    forcePc, cliVars, serverVars, requestVars, scalarVars,
                    cdIn, cdBytes >>

NextApply ==
    \/ ApplyCall
    \/ ServeHandleError
    \/ ServeCloseBegin
    \/ ServeCloseEnd
    \/ ForceShutdownBegin
    \/ ForceCloseBegin
    \/ ForceCloseEnd
    \/ NotifyClosed

SpecApply == InitApply /\ [][NextApply]_vars

Applied == cdPc = "applied"
Invoked == hres = "running" /\ srvErr = NoError
\* The handler is not invoked and the Error frame of kind TypeMismatch is
\* the one thing written; it is on the socket when serve is done, the
\* socket closed, unless its write failed or a forced shutdown closed the
\* connection first.
Mismatched ==
    /\ hres = "notCalled"
    /\ srvErr = TypeMismatch
    /\ \A i \in DOMAIN out : out[i] = ErrorFrame(ErrorKindTypeMismatch, "empty")
    /\ Len(out) <= 1
    /\ (srvPc = "done" /\ ~ioFailed /\ forcePc = "idle") => (Len(out) = 1 /\ rwClosed)

\* The type of the body as apply passes it: that of a pointer to the body
\* when the handler takes a pointer and the body is none.
passedType(inType, data) ==
    IF inType.k = "ptr" /\ typeOf(data).k # "ptr" THEN ptrTo(typeOf(data))
    ELSE typeOf(data)

\* C34, as it is stated: when the handler declares an input type and the
\* body is void or of a type that is not convertible to the input type, the
\* handler is not invoked and an Error frame of kind TypeMismatch is
\* written, then the connection is closed.
UnconvertibleRejected ==
    (Applied /\ handler.hasIn
       /\ (cdIn.data = Nil \/ ~ConvertibleTo(typeOf(cdIn.data), cdIn.inType)))
      => Mismatched

\* C34, amended: the type that has to be convertible is that of a pointer to
\* the body when the handler takes a pointer and the body is none. When the
\* handler declares an input type and the body is void or not convertible
\* in this sense, the handler is not invoked and the Error frame of kind
\* TypeMismatch is written, then the connection is closed; otherwise the
\* handler is invoked with the converted body; when it declares no input
\* type, it is invoked with no parameter made of the body.
ApplyTypeChecked ==
    Applied =>
        IF ~handler.hasIn THEN Invoked /\ cdOut.params = << >>
        ELSE IF \/ cdIn.data = Nil
                \/ ~ConvertibleTo(passedType(cdIn.inType, cdIn.data), cdIn.inType)
          THEN Mismatched
          ELSE Invoked /\ Len(cdOut.params) = 1
                       /\ typeOf(cdOut.params[1]) = cdIn.inType

\* A body of a type that is not convertible was refused: the frame is
\* written and the connection closed.
MismatchReported ==
    /\ Applied
    /\ handler.hasIn
    /\ cdIn.data # Nil
    /\ srvPc = "done"
    /\ out = << ErrorFrame(ErrorKindTypeMismatch, "empty") >>
    /\ rwClosed

\* --------------------------------------------- a streamed response, end to end
\* A streaming handler sets headers through the streamer's Headers(), pushes
\* values and returns; the pump writes the Response frame and the values;
\* the client calls DoRequestStreamed. cdIn holds the headers of the request
\* and what the handler does: the Set calls it makes, then the values it
\* pushes. cdOut holds the map h that apply gives to the streamer and to the
\* pump (the headers of the request), the channel, the state of the
\* connection and what the client gets; cdBytes is what the server wrote.

\* textproto.CanonicalMIMEHeaderKey, for keys of letters and hyphens: the
\* first letter and each letter after a hyphen in upper case, the others in
\* lower case.
canonicalMIMEHeaderKey(key) ==
    LET upper(c) == IF c \in 97..122 THEN c - 32 ELSE c
        lower(c) == IF c \in 65..90 THEN c + 32 ELSE c
    IN  stringValue([i \in 1..Len(key.s) |->
                        IF i = 1 \/ key.s[i - 1] = 45 THEN upper(key.s[i])
                        ELSE lower(key.s[i])])

\* Header.Set and Header.Get.
HeaderSet(h, key, value) ==
    [h EXCEPT !.m = (canonicalMIMEHeaderKey(key) :> value) @@ h.m]
HeaderGet(h, key) ==
    IF canonicalMIMEHeaderKey(key) \in DOMAIN h.m
      THEN h.m[canonicalMIMEHeaderKey(key)]
      ELSE strEmpty

\* A pump that never writes the Response frame.
flushNever(st) == FALSE

\* serviceStreamer's "if c.state == connStateReceivedBody".
flushHeaders(st) == st = connStateReceivedBody

\* The reader task of DoRequestStreamed: "Decode(buf)" until an error.
RECURSIVE decodeUntilError(_, _)
decodeUntilError(r, got) ==
    Once(Decode(r), LAMBDA d :
      IF d.err # NoError THEN got
      ELSE decodeUntilError(d.rest, Append(got, d.val)))

\* DoRequestStreamed: the error, the headers of the Response and the values
\* that come through the channel.
DoRequestStreamed(o, sent) ==
    Once(performRequest(o, sent), LAMBDA p :
      IF p.err # NoError THEN [err |-> p.err, headers |-> Nil, vals |-> << >>]
      ELSE [err |-> NoError, headers |-> p.r.Headers,
            vals |-> decodeUntilError(p.buf, << >>)])

strLowerA == stringValue(<< 97 >>)
SetCalls == [key : {strA, strLowerA, strB}, value : {strA, strB}]
Pushes == {pointer(OtherTS, v) : v \in OtherTSValues}

StreamingRuns(maxPush) ==
    [reqHeaders : {stringMap(<< >>), stringMap(strB :> strEmpty)},
     sets : UpTo(2, SetCalls),
     vals : UpTo(maxPush, Pushes),
     ord : MapOrders]

\* apply has made the streamer and started the pump.
InitStreamed ==
    /\ cdIn \in StreamingRuns(MaxPush)
    /\ cdPc = "handler"
    /\ cdBytes = << >>
    /\ cdOut = [h |-> cdIn.reqHeaders, ch |-> << >>, closed |-> FALSE,
                state |-> connStateReceivedBody, sets |-> 0, pushed |-> 0,
                pump |-> "recv", client |-> << >>]

\* out.Headers().Set(key, value)
StreamerSet ==
    /\ cdPc = "handler"
    /\ cdOut.sets < Len(cdIn.sets)
    /\ cdOut' = [cdOut EXCEPT
                   !.h = HeaderSet(cdOut.h, cdIn.sets[cdOut.sets + 1].key,
                                   cdIn.sets[cdOut.sets + 1].value),
                   !.sets = @ + 1]
    /\ UNCHANGED << cdIn, cdPc, cdBytes, requestVars, scalarVars, connVars, serverVars >>

\* out.Push(v): "i.ch <- v".
StreamerPush ==
    /\ cdPc = "handler"
    /\ cdOut.sets = Len(cdIn.sets)
    /\ cdOut.pushed < Len(cdIn.vals)
    /\ Len(cdOut.ch) < StreamChanCap
    /\ cdOut' = [cdOut EXCEPT !.ch = Append(@, cdIn.vals[cdOut.pushed + 1]),
                              !.pushed = @ + 1]
    /\ UNCHANGED << cdIn, cdPc, cdBytes, requestVars, scalarVars, connVars, serverVars >>

\* The handler returns nil and apply closes the channel.
StreamerReturn ==
    /\ cdPc = "handler"
    /\ cdOut.sets = Len(cdIn.sets)
    /\ cdOut.pushed = Len(cdIn.vals)
    /\ cdOut' = [cdOut EXCEPT !.closed = TRUE]
    /\ cdPc' = "wgWait"
    /\ UNCHANGED << cdIn, cdBytes, requestVars, scalarVars, connVars, serverVars >>

\* One turn of the pump's loop for a value: the Response frame with the map
\* h, if the state says so, then the value.
StreamerPump ==
    /\ cdOut.pump = "recv"
    /\ cdOut.ch # << >>
    /\ LET frame == IF flushHeaders(cdOut.state)
                      THEN ResponseEncode(Response(cdOut.h, TRUE), cdIn.ord).b
                      ELSE << >>
       IN  /\ cdBytes' = cdBytes \o frame \o encode(Head(cdOut.ch), cdIn.ord).b
           /\ cdOut' = [cdOut EXCEPT !.ch = Tail(@),
                                     !.state = IF flushHeaders(@)
                                                 THEN connStateWritingResponse ELSE @]
    /\ UNCHANGED << cdIn, cdPc, requestVars, scalarVars, connVars, serverVars >>

\* The pump finds the channel closed and calls done(); apply returns and
\* serve closes the connection.
StreamerDone ==
    /\ cdPc = "wgWait"
    /\ cdOut.pump = "recv"
    /\ cdOut.ch = << >>
    /\ cdOut' = [cdOut EXCEPT !.pump = "done", !.state = connStateClosed]
    /\ cdPc' = "closed"
    /\ UNCHANGED << cdIn, cdBytes, requestVars, scalarVars, connVars, serverVars >>

\* The client's DoRequestStreamed and what its channel yields.
ClientStreamed ==
    /\ cdPc = "closed"
    /\ cdOut' = [cdOut EXCEPT !.client = DoRequestStreamed("ok", cdBytes)]
    /\ cdPc' = "received"
    /\ UNCHANGED << cdIn, cdBytes, requestVars, scalarVars, connVars, serverVars >>

InitStream ==
    /\ InitConn
    /\ inClients = FALSE
    /\ waitClients = 0
    /\ InitNewServer
    /\ InitNoRequest
    /\ InitNoScalar
    /\ InitStreamed

NextStream ==
    \/ StreamerSet
    \/ StreamerPush
    \/ StreamerReturn
    \/ StreamerPump
    \/ StreamerDone
    \/ ClientStreamed

SpecStream == InitStream /\ [][NextStream]_vars

\* The value the handler gave the key of its i-th Set call last.
lastSet(i) ==
    LET same == {j \in DOMAIN cdIn.sets :
                    canonicalMIMEHeaderKey(cdIn.sets[j].key)
                      = canonicalMIMEHeaderKey(cdIn.sets[i].key)}
    IN  cdIn.sets[CHOOSE j \in same : \A l \in same : l <= j].value

\* C32: the handler having set headers and then pushed at least one value,
\* the client gets no error, headers in which each key the handler set has
\* the value it was given last, and the values pushed, in their order, the
\* first one first.
StreamedEndToEnd ==
    (cdPc = "received" /\ cdIn.vals # << >>) =>
        /\ cdOut.client.err = NoError
        /\ \A i \in DOMAIN cdIn.sets :
              HeaderGet(cdOut.client.headers, cdIn.sets[i].key) = lastSet(i)
        /\ Len(cdOut.client.vals) = Len(cdIn.vals)
        /\ \A i \in DOMAIN cdIn.vals :
              \A n \in declaredNames(OtherTS) :
                 cdOut.client.vals[i].v.f[n] = cdIn.vals[i].v.f[n]

\* The client got a header the handler set under a key in lower case, and
\* two values.
HeadersAndValuesReceived ==
    /\ cdPc = "received"
    /\ Len(cdIn.sets) = 2
    /\ cdIn.sets[1].key = strLowerA
    /\ Len(cdIn.vals) = 2
    /\ cdOut.client.err = NoError
    /\ HeaderGet(cdOut.client.headers, strA) = lastSet(1)
    /\ Len(cdOut.client.vals) = 2

====
